---- MODULE Spec2Model ----
(***************************************************************************)
(* Flood-fill maze solver (src/algo/ff): the maze state, the flood fills,  *)
(* the per-tick navigation, the mode state machine and the shortest-path   *)
(* pipeline of ff.c and ffv3.c (and the flood fill of ffv1.c).             *)
(*                                                                         *)
(* A cell is the pair <<x, y>>; the arrays walls[x][y][dir], visited[x][y] *)
(* and distances[x][y] are functions of the cell.  The grid is scaled from *)
(* 16x16 to MazeSize x MazeSize, the goal block staying the centre 2x2.    *)
(***************************************************************************)
EXTENDS Integers, Sequences, FiniteSets, TLC

\* ------------------------------------------------------------ bounds
\* Side of the (square) grid; the source has 16.
MazeSize == 4

\* ------------------------------------------------------------ constants
MAZE_WIDTH == MazeSize
MAZE_HEIGHT == MazeSize
MAX_CELLS == MAZE_WIDTH * MAZE_HEIGHT
INVALID_DISTANCE == MAX_CELLS

GOAL_X1 == MAZE_WIDTH \div 2 - 1
GOAL_Y1 == MAZE_HEIGHT \div 2 - 1
GOAL_X2 == MAZE_WIDTH \div 2
GOAL_Y2 == MAZE_HEIGHT \div 2

NORTH == 0
EAST == 1
SOUTH == 2
WEST == 3
DIRECTION_COUNT == 4

SEARCH_MODE == 0
RETURN_MODE == 1
SPEED_MODE == 2

Dirs == 0 .. (DIRECTION_COUNT - 1)
Xs == 0 .. (MAZE_WIDTH - 1)
Ys == 0 .. (MAZE_HEIGHT - 1)
Cells == Xs \X Ys

\* const int dx[4], dy[4] / direction_delta: NORTH, EAST, SOUTH, WEST.
dx == [dir \in Dirs |-> CASE dir = NORTH -> 0 [] dir = EAST -> 1 [] dir = SOUTH -> 0 [] OTHER -> -1]
dy == [dir \in Dirs |-> CASE dir = NORTH -> 1 [] dir = EAST -> 0 [] dir = SOUTH -> -1 [] OTHER -> 0]

Abs(n) == IF n < 0 THEN -n ELSE n

is_within_bounds(p) ==
    p[1] >= 0 /\ p[1] < MAZE_WIDTH /\ p[2] >= 0 /\ p[2] < MAZE_HEIGHT

is_at_goal(p) ==
    (p[1] = GOAL_X1 \/ p[1] = GOAL_X2) /\ (p[2] = GOAL_Y1 \/ p[2] = GOAL_Y2)

is_at_start(p) == p[1] = 0 /\ p[2] = 0

get_opposite_direction(dir) == (dir + 2) % DIRECTION_COUNT

\* The cell one step from p in direction dir (possibly out of bounds).
Neighbor(p, dir) == <<p[1] + dx[dir], p[2] + dy[dir]>>

\* ------------------------------------------------------------ wall map
\* initializeMaze / init_maze: no wall but the grid boundary.
BoundaryWalls ==
    [x \in Xs |-> [y \in Ys |->
        [d \in Dirs |->
            \/ (d = SOUTH /\ y = 0)
            \/ (d = NORTH /\ y = MAZE_HEIGHT - 1)
            \/ (d = WEST /\ x = 0)
            \/ (d = EAST /\ x = MAZE_WIDTH - 1)]]]

\* The mutant of WriteWall: the mirrored flag of the neighbour is left alone.
WriteWall_OneSided(w, p, dir, v) == [w EXCEPT ![p[1]][p[2]][dir] = v]

\* Writes flag v on side dir of cell p and on the mirrored side of the
\* neighbour when that neighbour is in bounds (p is in bounds).
WriteWall(w, p, dir, v) ==
    IF is_within_bounds(Neighbor(p, dir))
    THEN [w EXCEPT ![p[1]][p[2]][dir] = v,
                   ![p[1] + dx[dir]][p[2] + dy[dir]][get_opposite_direction(dir)] = v]
    ELSE [w EXCEPT ![p[1]][p[2]][dir] = v]

\* The mutant of set_wall: a cell out of bounds is taken for the nearest
\* cell of the grid.
set_wall_Clamped(w, p, dir) ==
    WriteWall(w,
              <<IF p[1] < 0 THEN 0 ELSE IF p[1] >= MAZE_WIDTH THEN MAZE_WIDTH - 1 ELSE p[1],
                IF p[2] < 0 THEN 0 ELSE IF p[2] >= MAZE_HEIGHT THEN MAZE_HEIGHT - 1 ELSE p[2]>>,
              dir, TRUE)

\* The mutant of set_wall: the mirrored flag of the neighbour is forgotten.
set_wall_OneSided(w, p, dir) ==
    IF ~is_within_bounds(p) THEN w ELSE [w EXCEPT ![p[1]][p[2]][dir] = TRUE]

set_wall(w, p, dir) ==
    IF ~is_within_bounds(p) THEN w ELSE WriteWall(w, p, dir, TRUE)

has_wall(w, p, dir) ==
    IF ~is_within_bounds(p) THEN TRUE ELSE w[p[1]][p[2]][dir]

\* ------------------------------------------------------------ flood fill
\* The mutant of RelaxTo: a cell is set and enqueued again when v equals its
\* distance.
RelaxTo_OrEqual(st, n, v) ==
    IF st.distances[n[1]][n[2]] >= v
    THEN [distances |-> [st.distances EXCEPT ![n[1]][n[2]] = v],
          queue |-> Append(st.queue, n)]
    ELSE st

\* if (distances[nx][ny] > d + 1): the cell n is set to v and enqueued when
\* v improves it.
RelaxTo(st, n, v) ==
    IF st.distances[n[1]][n[2]] > v
    THEN [distances |-> [st.distances EXCEPT ![n[1]][n[2]] = v],
          queue |-> Append(st.queue, n)]
    ELSE st

\* The mutant of RelaxNeighbor: the recorded wall is not looked at.
RelaxNeighbor_IgnoreWall(w, st, c, d, dir) ==
    IF ~is_within_bounds(Neighbor(c, dir)) THEN st
    ELSE RelaxTo(st, Neighbor(c, dir), d + 1)

\* One iteration of the inner for-loop of the BFS: the neighbour of c in
\* direction dir is skipped behind a recorded wall or out of bounds, and
\* relaxed to d + 1 otherwise.
RelaxNeighbor(w, st, c, d, dir) ==
    IF w[c[1]][c[2]][dir] \/ ~is_within_bounds(Neighbor(c, dir)) THEN st
    ELSE RelaxTo(st, Neighbor(c, dir), d + 1)

\* for (dir = 0; dir < 4; dir++) around the dequeued cell c of distance d.
RECURSIVE RelaxDirs(_, _, _, _, _)
RelaxDirs(w, st, c, d, dir) ==
    IF dir = DIRECTION_COUNT THEN st
    ELSE RelaxDirs(w, RelaxNeighbor(w, st, c, d, dir), c, d, dir + 1)

\* The body of the while-loop for the dequeued cell c.
VisitCell(w, st, c) == RelaxDirs(w, st, c, st.distances[c[1]][c[2]], NORTH)

\* while (qFront < qBack): qFront counts the cells already dequeued.
RECURSIVE BfsLoop(_, _, _)
BfsLoop(w, st, qFront) ==
    IF qFront >= Len(st.queue) THEN st
    ELSE BfsLoop(w, VisitCell(w, st, st.queue[qFront + 1]), qFront + 1)

AllInvalid == [x \in Xs |-> [y \in Ys |-> INVALID_DISTANCE]]

ZeroField == [x \in Xs |-> [y \in Ys |-> 0]]

\* The distance field with every cell of the sequence seeds at 0.
RECURSIVE SeedDistances(_, _)
SeedDistances(dist, seeds) ==
    IF seeds = << >> THEN dist
    ELSE SeedDistances([dist EXCEPT ![Head(seeds)[1]][Head(seeds)[2]] = 0], Tail(seeds))

\* The reset loop: every cell of the prior field is overwritten by the sentinel.
ResetField(old) ==
    [x \in DOMAIN old |-> [y \in DOMAIN old[x] |-> INVALID_DISTANCE]]

\* The mutant of BfsRun: the field is not reset before the seeds are set.
BfsRun_NoReset(w, seeds, old) ==
    BfsLoop(w, [distances |-> SeedDistances(old, seeds), queue |-> seeds], 0)

\* The whole BFS from the seeds (in queue order): the final field and the
\* queue with every cell that was ever enqueued.  The prior field, old, is
\* overwritten by the reset loop.
BfsRun(w, seeds, old) ==
    BfsLoop(w, [distances |-> SeedDistances(ResetField(old), seeds), queue |-> seeds], 0)

\* ff.c floodFill(targetX, targetY).
floodFill(w, target, old) == BfsRun(w, <<target>>, old).distances

\* ffv3.c flood_fill(m, target).
flood_fill(w, target, old) ==
    IF is_within_bounds(target) THEN BfsRun(w, <<target>>, old).distances
    ELSE ResetField(old)

\* The goal cells in the order the seeding loops of ffv3.c flood_fill_goal
\* and ffv1.c floodFill meet them (x outer, y inner).
GoalSeeds ==
    << <<GOAL_X1, GOAL_Y1>>, <<GOAL_X1, GOAL_Y2>>,
       <<GOAL_X2, GOAL_Y1>>, <<GOAL_X2, GOAL_Y2>> >>

GoalCells == {GoalSeeds[i] : i \in 1 .. 4}

\* ffv3.c flood_fill_goal(m).
flood_fill_goal(w, old) == BfsRun(w, GoalSeeds, old).distances

\* ffv1.c floodFill(): the goal cells are seeded inside the reset loop.
floodFill_v1(w, old) == BfsRun(w, GoalSeeds, old).distances

\* ffv3.c flood_fill_start(m).
flood_fill_start(w, old) == flood_fill(w, <<0, 0>>, old)

\* ff.c floodFillToGoal(): the goal cell nearest to (px, py) in Manhattan
\* distance, the first of the four on a tie, is the single target.
RECURSIVE MinIdx(_, _, _)
MinIdx(ds, i, best) ==
    IF i > Len(ds) THEN best
    ELSE MinIdx(ds, i + 1, IF ds[i] < ds[best] THEN i ELSE best)

GoalTarget(px, py) ==
    LET goalDistances ==
            [i \in 1 .. 4 |->
                Abs(px - GoalSeeds[i][1]) + Abs(py - GoalSeeds[i][2])]
    IN  GoalSeeds[MinIdx(goalDistances, 2, 1)]

\* The mutant of floodFillToGoal: the field leads to the start.
floodFillToGoal_ToStart(w, px, py, old) == floodFill(w, <<0, 0>>, old)

floodFillToGoal(w, px, py, old) == floodFill(w, GoalTarget(px, py), old)

\* ff.c floodFillToStart().
floodFillToStart(w, old) == floodFill(w, <<0, 0>>, old)

\* ------------------------------------------------------------ direction scan
\* for (dir = 0; dir < 4; dir++): among the sides of c with no recorded wall
\* and an in-bounds neighbour, the first direction whose value in adist is
\* below every earlier one and below the starting value of minDist;
\* dir is -1 when there is none.
RECURSIVE ScanDirs(_, _, _, _, _)
ScanDirs(w, adist, c, dir, best) ==
    IF dir = DIRECTION_COUNT THEN best
    ELSE LET nx == c[1] + dx[dir]
             ny == c[2] + dy[dir]
         IN  IF w[c[1]][c[2]][dir] \/ nx < 0 \/ nx >= MAZE_WIDTH \/ ny < 0 \/ ny >= MAZE_HEIGHT
             THEN ScanDirs(w, adist, c, dir + 1, best)
             ELSE IF adist[nx][ny] < best.minDist
                  THEN ScanDirs(w, adist, c, dir + 1,
                                [minDist |-> adist[nx][ny], dir |-> dir])
                  ELSE ScanDirs(w, adist, c, dir + 1, best)

LowestNeighbor(w, adist, c, start) ==
    ScanDirs(w, adist, c, NORTH, [minDist |-> start, dir |-> -1])

\* ------------------------------------------------------------ shortest path
\* The path array, MAX_CELLS cells, zero-initialised as a C global.
EmptyPath == [i \in 0 .. (MAX_CELLS - 1) |-> <<0, 0>>]

\* ff.c computeShortestPath, the while loop: from c, step to the open
\* neighbour of lowest distance (below MAX_CELLS) until a goal cell; return
\* with the path as it stands when there is none.  overflow marks a write
\* past the end of fastestPath.  dist is the field the flood fill left.
RECURSIVE TracePath(_, _, _, _, _)
TracePath(w, dist, c, path, len) ==
    IF is_at_goal(c)
    THEN [distances |-> dist, fastestPath |-> path, pathLength |-> len, overflow |-> FALSE]
    ELSE LET pick == LowestNeighbor(w, dist, c, MAX_CELLS)
         IN  IF pick.dir = -1
             THEN [distances |-> dist, fastestPath |-> path, pathLength |-> len,
                   overflow |-> FALSE]
             ELSE IF len >= MAX_CELLS
                  THEN [distances |-> dist, fastestPath |-> path, pathLength |-> len,
                        overflow |-> TRUE]
                  ELSE TracePath(w, dist, Neighbor(c, pick.dir),
                                 [path EXCEPT ![len] = Neighbor(c, pick.dir)], len + 1)

\* The mutant of computeShortestPath: the trace ignores the recorded walls.
computeShortestPath_NoWalls(w, px, py, old, path) ==
    TracePath(BoundaryWalls, floodFillToGoal(w, px, py, old), <<0, 0>>,
              [path EXCEPT ![0] = <<0, 0>>], 1)

\* ff.c computeShortestPath(): the start is stored, the field is flooded
\* toward the goal target of the current position (px, py), and the path
\* is traced from the start.
computeShortestPath(w, px, py, old, path) ==
    TracePath(w, floodFillToGoal(w, px, py, old), <<0, 0>>,
              [path EXCEPT ![0] = <<0, 0>>], 1)

\* ffv3.c compute_shortest_path, the while loop: step to the open neighbour
\* whose distance is lowest and strictly below the current cell's; the path
\* length is 0 when there is none or when the array is full.
RECURSIVE trace_path(_, _, _, _, _)
trace_path(w, dist, c, path, len) ==
    IF is_at_goal(c) THEN [distances |-> dist, fastestPath |-> path, pathLength |-> len]
    ELSE LET pick == LowestNeighbor(w, dist, c, dist[c[1]][c[2]])
         IN  IF pick.dir = -1
             THEN [distances |-> dist, fastestPath |-> path, pathLength |-> 0]
             ELSE IF len < MAX_CELLS
                  THEN trace_path(w, dist, Neighbor(c, pick.dir),
                                  [path EXCEPT ![len] = Neighbor(c, pick.dir)], len + 1)
                  ELSE [distances |-> dist, fastestPath |-> path, pathLength |-> 0]

\* ffv3.c compute_shortest_path after its flood_fill_goal left the field
\* dist: no path when the start holds the sentinel, else the trace from the
\* start.
trace_from_start(w, dist, path) ==
    IF dist[0][0] = INVALID_DISTANCE
    THEN [distances |-> dist, fastestPath |-> path, pathLength |-> 0]
    ELSE trace_path(w, dist, <<0, 0>>, [path EXCEPT ![0] = <<0, 0>>], 1)

\* ffv3.c compute_shortest_path(ms, m).
compute_shortest_path(w, old, path) ==
    trace_from_start(w, flood_fill_goal(w, old), path)

\* ------------------------------------------------------------ reference
\* The edge from c in direction dir is open: the neighbour is in bounds and
\* neither endpoint records a wall on it.
OpenEdge(w, c, dir) ==
    /\ is_within_bounds(Neighbor(c, dir))
    /\ ~w[c[1]][c[2]][dir]
    /\ ~w[c[1] + dx[dir]][c[2] + dy[dir]][get_opposite_direction(dir)]

\* Minimum number of open-edge hops to the nearest cell of the set S, or the
\* sentinel: the cells first met after k rounds of stepping over open edges.
RECURSIVE HopLayers(_, _, _, _, _)
HopLayers(w, seen, frontier, k, dist) ==
    IF frontier = {} THEN dist
    ELSE LET next == {n \in Cells \ seen :
                        \E c \in frontier, d \in Dirs : OpenEdge(w, c, d) /\ Neighbor(c, d) = n}
         IN  HopLayers(w, seen \cup next, next, k + 1,
                       [x \in Xs |-> [y \in Ys |-> IF <<x, y>> \in frontier THEN k ELSE dist[x][y]]])

MinHops(w, S) == HopLayers(w, S, S, 0, AllInvalid)

\* Interior edges agree from both endpoints.
WallsSymmetric(w) ==
    \A c \in Cells, d \in Dirs :
        is_within_bounds(Neighbor(c, d)) =>
            w[c[1]][c[2]][d] = w[c[1] + dx[d]][c[2] + dy[d]][get_opposite_direction(d)]

\* The for-loops that look for moveDir: the direction of the step from
\* cell a to cell b, -1 when they are not four-adjacent.
DirBetween(a, b) ==
    IF \E d \in Dirs : Neighbor(a, d) = b
    THEN CHOOSE d \in Dirs : Neighbor(a, d) = b
    ELSE -1

\* ------------------------------------------------------------ turning
\* A turn in progress is the orientation and the actuations issued so far.
\* API_turnRight(); orientation = (orientation + 1) % 4.
TurnRight(t) ==
    [orientation |-> (t.orientation + 1) % DIRECTION_COUNT, issued |-> Append(t.issued, "R")]

\* API_turnLeft(); orientation = (orientation + 3) % 4.
TurnLeft(t) ==
    [orientation |-> (t.orientation + 3) % DIRECTION_COUNT, issued |-> Append(t.issued, "L")]

\* The mutant of TurnStep: the turn around is made of two left turns.
TurnStep_TwoLefts(t, target) ==
    IF (target - t.orientation + DIRECTION_COUNT) % DIRECTION_COUNT = 1 THEN TurnRight(t)
    ELSE IF (target - t.orientation + DIRECTION_COUNT) % DIRECTION_COUNT = 3 THEN TurnLeft(t)
    ELSE TurnLeft(TurnLeft(t))

\* The if-chain on diff = (target - orientation + 4) % 4: one right turn for
\* 1, one left turn for 3, two right turns otherwise.
TurnStep(t, target) ==
    IF (target - t.orientation + DIRECTION_COUNT) % DIRECTION_COUNT = 1 THEN TurnRight(t)
    ELSE IF (target - t.orientation + DIRECTION_COUNT) % DIRECTION_COUNT = 3 THEN TurnLeft(t)
    ELSE TurnRight(TurnRight(t))

\* ffv3.c turn_to_direction(ms, target_dir).
turn_to_direction(t, target) ==
    IF t.orientation = target THEN t ELSE TurnStep(t, target)

\* ff.c while (direction != minDir) { ... }.
RECURSIVE TurnLoop(_, _)
TurnLoop(t, target) ==
    IF t.orientation = target THEN t ELSE TurnLoop(TurnStep(t, target), target)

\* ff.c while (direction != NORTH) { API_turnRight(); ... }.
RECURSIVE FaceNorth(_)
FaceNorth(t) ==
    IF t.orientation = NORTH THEN t ELSE FaceNorth(TurnRight(t))

\* ------------------------------------------------------------ state
VARIABLES
    prog,                  \* which program runs: "ff" (ff.c), "ffv3" (ffv3.c), "lib" (its functions alone)
    posX, posY,            \* posX, posY / mouse.pos
    direction,             \* direction / mouse.orientation
    currentMode,           \* currentMode / mouse.mode
    goalFound,             \* goalFound / mouse.goal_found
    explorePhaseComplete,  \* ff.c explorePhaseComplete
    justReachedGoal,       \* ff.c moveToNextCellReturn's static flag
    distances,             \* distances / maze.distances
    walls,                 \* walls / maze.walls
    visited,               \* visited / maze.visited
    fastestPath,           \* fastestPath / mouse.shortest_path
    pathLength,            \* pathLength / mouse.path_length
    status,                \* "running", "done" (main returned), "aborted" (undefined behaviour)
    env,                   \* the simulator: its maze, its robot, the events so far
    log                    \* what the last operation did (history for the properties)

vars == <<prog, posX, posY, direction, currentMode, goalFound, explorePhaseComplete,
          justReachedGoal, distances, walls, visited, fastestPath, pathLength,
          status, env, log>>

mouseVars == <<posX, posY, direction, currentMode, goalFound, explorePhaseComplete,
               justReachedGoal>>

pos == <<posX, posY>>

\* ------------------------------------------------------------ the functions alone
\* Largest number of interior walls of a wall map the functions are applied to.
MaxWalls == 2

\* The interior edges, each named from its south or west endpoint.
Edges ==
    {e \in Cells \X {NORTH, EAST} : is_within_bounds(Neighbor(e[1], e[2]))}

\* The interior edges that touch a goal cell.
GoalEdges ==
    {e \in Edges : is_at_goal(e[1]) \/ is_at_goal(Neighbor(e[1], e[2]))}

\* The wall map with the boundary and a wall, recorded on both endpoints, on
\* every edge of S.
WallMap(S) ==
    [x \in Xs |-> [y \in Ys |->
        [d \in Dirs |->
            \/ BoundaryWalls[x][y][d]
            \/ << <<x, y>>, d >> \in S
            \/ << Neighbor(<<x, y>>, d), get_opposite_direction(d) >> \in S]]]

\* The interior edges that touch the start cell or a goal cell.
StartGoalEdges ==
    GoalEdges \cup {e \in Edges : is_at_start(e[1]) \/ is_at_start(Neighbor(e[1], e[2]))}

\* The boundary flags at the start cell, which the sensing of ff.c can clear.
StartFlags == {<< <<0, 0>>, SOUTH >>, << <<0, 0>>, WEST >>}

\* A wall on one edge anywhere, one boundary flag of the start cell cleared.
OpenStartMaps ==
    {[WallMap({e}) EXCEPT ![f[1][1]][f[1][2]][f[2]] = FALSE] : e \in Edges, f \in StartFlags}

\* The wall maps the flood fills are applied to.
FillWallMaps ==
    {WallMap(S) : S \in {T \in SUBSET StartGoalEdges : Cardinality(T) <= MaxWalls}}
    \cup OpenStartMaps

\* Largest number of walls around the goal block the path is computed under.
MaxPathWalls == 4

\* The wall maps the shortest path is computed under.
PathWallMaps ==
    {WallMap(S) : S \in {T \in SUBSET GoalEdges : Cardinality(T) <= MaxPathWalls}}
    \cup OpenStartMaps

\* The state right after construction (initializeMaze / init_simulation) but
\* for the wall map, which is any map of the set maps.
LibInit(maps) ==
    /\ prog = "lib"
    /\ posX = 0 /\ posY = 0 /\ direction = NORTH
    /\ currentMode = SEARCH_MODE
    /\ goalFound = FALSE
    /\ explorePhaseComplete = FALSE
    /\ justReachedGoal = TRUE
    /\ walls \in maps
    /\ distances = floodFillToGoal(BoundaryWalls, 0, 0, AllInvalid)
    /\ visited = [x \in Xs |-> [y \in Ys |-> x = 0 /\ y = 0]]
    /\ fastestPath = EmptyPath
    /\ pathLength = 0
    /\ status = "running"
    /\ env = [kind |-> "none"]
    /\ log = [op |-> "init", seeds |-> <<GoalTarget(0, 0)>>, again |-> FALSE,
              raised |-> FALSE, added |-> {}]

FillInit == LibInit(FillWallMaps)

PathInit == LibInit(PathWallMaps)

\* The targets ff.c passes to floodFill: a goal cell or the start.
FillTargets == GoalCells \cup {<<0, 0>>}

\* Targets passed to ffv3.c flood_fill: the start and the other corners.
CornerTargets ==
    {<<0, 0>>, <<MAZE_WIDTH - 1, 0>>, <<0, MAZE_HEIGHT - 1>>, <<MAZE_WIDTH - 1, MAZE_HEIGHT - 1>>}

\* What a fill from the sequence seeds that returned the field new leaves in
\* the log: whether the same fill ran just before, and whether some cell's
\* distance to the same seeds went up.
FillLog(seeds, new) ==
    [op |-> "fill", seeds |-> seeds,
     again |-> log.op = "fill" /\ log.seeds = seeds,
     raised |-> /\ log.seeds = seeds
                /\ \E c \in Cells : new[c[1]][c[2]] > distances[c[1]][c[2]],
     added |-> log.added]

\* ff.c floodFill(targetX, targetY) on the current map.
FloodFillOp(t) ==
    /\ distances' = floodFill(walls, t, distances)
    /\ log' = FillLog(<<t>>, distances')
    /\ UNCHANGED <<prog, mouseVars, walls, visited, fastestPath, pathLength, status, env>>

\* ffv3.c flood_fill(m, target).
FloodFillV3Op(t) ==
    /\ distances' = flood_fill(walls, t, distances)
    /\ log' = FillLog(<<t>>, distances')
    /\ UNCHANGED <<prog, mouseVars, walls, visited, fastestPath, pathLength, status, env>>

\* ffv3.c flood_fill_goal(m).
FloodFillGoalOp ==
    /\ distances' = flood_fill_goal(walls, distances)
    /\ log' = FillLog(GoalSeeds, distances')
    /\ UNCHANGED <<prog, mouseVars, walls, visited, fastestPath, pathLength, status, env>>

\* ffv1.c floodFill().
FloodFillV1Op ==
    /\ distances' = floodFill_v1(walls, distances)
    /\ log' = FillLog(GoalSeeds, distances')
    /\ UNCHANGED <<prog, mouseVars, walls, visited, fastestPath, pathLength, status, env>>

FillNext ==
    \/ \E t \in FillTargets : FloodFillOp(t)
    \/ \E t \in CornerTargets : FloodFillV3Op(t)
    \/ FloodFillGoalOp
    \/ FloodFillV1Op

SpecFill == FillInit /\ [][FillNext]_vars

\* The path that ff.c computeShortestPath computed, r, in the globals; a
\* write past the end of fastestPath loses the program.
StorePathOp(r) ==
    /\ distances' = r.distances
    /\ fastestPath' = r.fastestPath
    /\ pathLength' = r.pathLength
    /\ status' = IF r.overflow THEN "aborted" ELSE status

\* ff.c computeShortestPath(), the agent at the start.
ComputeShortestPathOp ==
    /\ StorePathOp(computeShortestPath(walls, posX, posY, distances, fastestPath))
    /\ log' = [FillLog(<<GoalTarget(posX, posY)>>, distances') EXCEPT !.op = "path_ff"]
    /\ UNCHANGED <<prog, mouseVars, walls, visited, env>>

\* The path that ffv3.c compute_shortest_path computed, r, in the mouse state.
StorePathV3Op(r) ==
    /\ distances' = r.distances
    /\ fastestPath' = r.fastestPath
    /\ pathLength' = r.pathLength

\* ffv3.c compute_shortest_path(ms, m).
ComputeShortestPathV3Op ==
    /\ StorePathV3Op(compute_shortest_path(walls, distances, fastestPath))
    /\ log' = [FillLog(GoalSeeds, distances') EXCEPT !.op = "path_v3"]
    /\ UNCHANGED <<prog, mouseVars, walls, visited, status, env>>

PathNext ==
    \/ status = "running" /\ ComputeShortestPathOp
    \/ status = "running" /\ ComputeShortestPathV3Op

SpecPath == PathInit /\ [][PathNext]_vars

\* ------------------------------------------------------------ walls added
\* Largest number of walls added after construction.
MaxAdded == 2

\* The interior edge on side dir of p under its name in Edges; no edge
\* when that side is the grid boundary.
EdgeOf(p, dir) ==
    IF ~is_within_bounds(Neighbor(p, dir)) THEN {}
    ELSE IF dir \in {NORTH, EAST} THEN {<<p, dir>>}
    ELSE {<<Neighbor(p, dir), get_opposite_direction(dir)>>}

\* The sides set_wall is called on: each edge that touches the start or a
\* goal cell, from either of its two cells.
WallArgs ==
    {a \in Cells \X Dirs : EdgeOf(a[1], a[2]) \cap StartGoalEdges # {}}

\* ffv3.c set_wall(m, p, dir); the field of distances is left as it was.
SetWallOp(p, dir) ==
    /\ Cardinality(log.added \cup EdgeOf(p, dir)) <= MaxAdded
    /\ walls' = set_wall(walls, p, dir)
    /\ log' = [op |-> "wall", seeds |-> log.seeds, again |-> FALSE, raised |-> FALSE,
               added |-> log.added \cup EdgeOf(p, dir)]
    /\ UNCHANGED <<prog, mouseVars, distances, visited, fastestPath, pathLength, status, env>>

WallInit == LibInit({BoundaryWalls})

\* Walls are added and the field is flooded again, to the goal or to the
\* start; at the end the path is computed.
WallNext ==
    \/ /\ log.op \notin {"path_ff", "path_v3"}
       /\ \E a \in WallArgs : SetWallOp(a[1], a[2])
    \/ /\ log.op \notin {"path_ff", "path_v3"}
       /\ FloodFillOp(GoalTarget(posX, posY))
    \/ /\ log.op \notin {"path_ff", "path_v3"}
       /\ FloodFillV3Op(<<0, 0>>)
    \/ /\ log.op \notin {"path_ff", "path_v3"}
       /\ FloodFillGoalOp
    \/ /\ log.op \notin {"path_ff", "path_v3"}
       /\ ComputeShortestPathOp
    \/ /\ log.op \notin {"path_ff", "path_v3"}
       /\ ComputeShortestPathV3Op

SpecWall == WallInit /\ [][WallNext]_vars

SeedSet == {log.seeds[i] : i \in 1 .. Len(log.seeds)}

\* C1: when a flood fill returns, every cell reachable from a source over
\* open edges holds its minimum number of open-edge hops to the nearest
\* source, and every other cell holds the sentinel MAX_CELLS.
C1_FloodFillExact ==
    log.op = "fill" => distances = MinHops(walls, SeedSet)

\* A fill that returned on a map where walls cut some cell off from the
\* sources while other cells are two hops or more away.
C1_Witness ==
    /\ log.op = "fill"
    /\ \E c \in Cells : distances[c[1]][c[2]] = INVALID_DISTANCE
    /\ \E c \in Cells :
          distances[c[1]][c[2]] >= 2 /\ distances[c[1]][c[2]] < INVALID_DISTANCE

\* ------------------------------------------------------------ the simulator
\* Largest number of events of a run: a reset of the simulator, a wall
\* sensor answering wrongly at the top of a tick, a move that fails though
\* no wall of the maze is in the way.
MaxEvents == 1

\* The program and the simulator in the middle of a tick: the globals of the
\* program, the events so far, the number of API_moveForward calls until the
\* one that fails for no wall (0: none), the failed moves of this tick, each
\* as <<cell, direction>>, the number of moves that succeeded in it, the
\* actuations it issued in order ("R" API_turnRight, "L" API_turnLeft, "F"
\* API_moveForward), what its call of choose_next_direction read and
\* answered, where floodFillToStartWithExploration was called from in it
\* ("display" updateDisplay, "fill" and "refill" moveToNextCellReturn before
\* and after its move), whether the simulator is reset after the poll at the
\* top of the tick, whether a reset was acknowledged with the state kept,
\* and the cell and heading of the robot in the simulator.
Machine ==
    [posX |-> posX, posY |-> posY, direction |-> direction,
     currentMode |-> currentMode, goalFound |-> goalFound,
     explorePhaseComplete |-> explorePhaseComplete,
     justReachedGoal |-> justReachedGoal,
     distances |-> distances, walls |-> walls, visited |-> visited,
     fastestPath |-> fastestPath, pathLength |-> pathLength,
     status |-> status, events |-> env.events,
     bumpIn |-> 0, failed |-> {}, moved |-> 0, acts |-> << >>, scan |-> {},
     explore |-> {}, lateReset |-> FALSE, acked |-> FALSE, robot |-> env.robot]

\* The robot as the simulator places it at its start and on every reset.
RobotAtStart == [x |-> 0, y |-> 0, dir |-> NORTH]

\* The simulator is reset: the robot is back at the start.
SimulatorReset(m) == [m EXCEPT !.robot = RobotAtStart]

\* API_wallFront / API_wallRight / API_wallLeft (k = 0, 1, 3): the wall of
\* the maze mz on that side of the mouse.
API_wall(m, mz, k) == mz[m.robot.x][m.robot.y][(m.robot.dir + k) % DIRECTION_COUNT]

\* The three answers, the one numbered flip (1 front, 2 right, 3 left)
\* inverted.
Readings(m, mz, flip) ==
    [front |-> (API_wall(m, mz, 0) # (flip = 1)),
     right |-> (API_wall(m, mz, 1) # (flip = 2)),
     left |-> (API_wall(m, mz, 3) # (flip = 3))]

\* API_moveForward answers true: no wall of the maze ahead, and this is not
\* the call that fails for no wall.
MoveSucceeds(m, mz) == ~API_wall(m, mz, 0) /\ m.bumpIn # 1

\* One API_moveForward call: the robot advances one cell along its heading
\* when the call answers true; and the bookkeeping of the call.
AfterMoveCall(m, mz) ==
    [m EXCEPT !.bumpIn = IF @ > 0 THEN @ - 1 ELSE 0,
              !.events = IF m.bumpIn = 1 /\ ~API_wall(m, mz, 0) THEN @ + 1 ELSE @,
              !.acts = Append(@, "F"),
              !.robot.x = IF MoveSucceeds(m, mz) THEN @ + dx[m.robot.dir] ELSE @,
              !.robot.y = IF MoveSucceeds(m, mz) THEN @ + dy[m.robot.dir] ELSE @]

\* The quarter turns to the right that the actuations after the first n of
\* acts make in all: one for each API_turnRight, three for each API_turnLeft.
Rotation(acts, n) ==
    Cardinality({k \in (n + 1) .. Len(acts) : acts[k] = "R"})
    + 3 * Cardinality({k \in (n + 1) .. Len(acts) : acts[k] = "L"})

\* The turn t (the orientation reached and the actuations issued so far) on
\* the machine; the robot turns as the actuations issued in it say.
Turned(m, t) ==
    [m EXCEPT !.direction = t.orientation, !.acts = t.issued,
              !.robot.dir = (@ + Rotation(t.issued, Len(m.acts))) % DIRECTION_COUNT]

\* The orientation of the machine and the actuations it has issued.
Heading(m) == [orientation |-> m.direction, issued |-> m.acts]

\* The turn loops of ff.c: API_turnRight / API_turnLeft until the mouse
\* faces dir.
TurnTo(m, dir) == Turned(m, TurnLoop(Heading(m), dir))

\* while (direction != NORTH) of prepareForSpeedRun and followShortestPath.
TurnNorth(m) == Turned(m, FaceNorth(Heading(m)))

\* ffv3.c turn_to_direction(ms, target_dir) on the machine.
TurnToDirection(m, dir) == Turned(m, turn_to_direction(Heading(m), dir))

\* ------------------------------------------------------------ ff.c
\* updateWalls(): the front, right and left flags of the current cell and
\* the mirrored flags of the neighbours are set or cleared as sensed.
updateWalls(m, r) ==
    [m EXCEPT !.walls =
        WriteWall(
            WriteWall(
                WriteWall(@, <<m.posX, m.posY>>, m.direction, r.front),
                <<m.posX, m.posY>>, (m.direction + 1) % 4, r.right),
            <<m.posX, m.posY>>, (m.direction + 3) % 4, r.left)]

\* initializeMaze().
initializeMaze(m) ==
    [m EXCEPT !.walls = BoundaryWalls,
              !.visited = [x \in Xs |-> [y \in Ys |-> x = 0 /\ y = 0]],
              !.distances = floodFillToGoal(BoundaryWalls, m.posX, m.posY,
                                            ResetField(m.distances))]

\* if (distances[i] < minGoalDist) minGoalDist = distances[i].
MinOf(a, b) == IF a < b THEN a ELSE b

\* floodFillToStartWithExploration(), the goalProximity of an unvisited cell.
goalProximity(nx, ny) ==
    (MAZE_WIDTH + MAZE_HEIGHT
        - MinOf(MinOf(MinOf(MinOf(MAZE_WIDTH + MAZE_HEIGHT,
              Abs(nx - GOAL_X1) + Abs(ny - GOAL_Y1)),
              Abs(nx - GOAL_X1) + Abs(ny - GOAL_Y2)),
              Abs(nx - GOAL_X2) + Abs(ny - GOAL_Y1)),
              Abs(nx - GOAL_X2) + Abs(ny - GOAL_Y2))) \div 2

\* effectiveDistance = d + 1 - explorationWeight - goalProximity for the
\* neighbour n of a cell of distance d.
effectiveDistance(vis, n, d) ==
    d + 1 - (IF ~vis[n[1]][n[2]] THEN 2 ELSE 0)
          - (IF ~vis[n[1]][n[2]] THEN goalProximity(n[1], n[2]) ELSE 0)

\* if (distances[nx][ny] > effectiveDistance): the cell n is set to v and
\* enqueued.  overflow: the enqueue wrote past the end of queue[].
ExploreRelaxTo(st, n, v) ==
    IF st.distances[n[1]][n[2]] > v
    THEN IF Len(st.queue) >= MAX_CELLS
         THEN [st EXCEPT !.overflow = TRUE]
         ELSE [distances |-> [st.distances EXCEPT ![n[1]][n[2]] = v],
               queue |-> Append(st.queue, n),
               overflow |-> FALSE]
    ELSE st

\* One iteration of its inner for-loop.
ExploreRelax(w, vis, st, c, d, dir) ==
    IF st.overflow \/ w[c[1]][c[2]][dir] \/ ~is_within_bounds(Neighbor(c, dir)) THEN st
    ELSE ExploreRelaxTo(st, Neighbor(c, dir), effectiveDistance(vis, Neighbor(c, dir), d))

\* for (dir = 0; dir < 4; dir++) around the dequeued cell c of distance d.
RECURSIVE ExploreDirs(_, _, _, _, _, _)
ExploreDirs(w, vis, st, c, d, dir) ==
    IF dir = DIRECTION_COUNT THEN st
    ELSE ExploreDirs(w, vis, ExploreRelax(w, vis, st, c, d, dir), c, d, dir + 1)

\* The body of its while-loop for the dequeued cell c.
ExploreCell(w, vis, st, c) ==
    ExploreDirs(w, vis, st, c, st.distances[c[1]][c[2]], NORTH)

\* while (qFront < qBack).
RECURSIVE ExploreLoop(_, _, _, _)
ExploreLoop(w, vis, st, qFront) ==
    IF st.overflow \/ qFront >= Len(st.queue) THEN st
    ELSE ExploreLoop(w, vis, ExploreCell(w, vis, st, st.queue[qFront + 1]), qFront + 1)

\* Its last loops: the field is shifted up so that its lowest value is 0.
Normalize(dist) ==
    LET vals == {dist[c[1]][c[2]] : c \in Cells} \cup {0}
        minDist == CHOOSE v \in vals : \A u \in vals : v <= u
    IN  IF minDist < 0
        THEN [x \in Xs |-> [y \in Ys |-> dist[x][y] - minDist]]
        ELSE dist

\* The field the loops left, normalised unless the queue overflowed.
NormalizeUnlessLost(st) ==
    [distances |-> IF st.overflow THEN st.distances ELSE Normalize(st.distances),
     overflow |-> st.overflow]

\* The mutant of floodFillToStartWithExploration: the plain flood fill to
\* the start, which draws the mouse to no unvisited cell and always ends.
floodFillToStartWithExploration_Plain(w, vis, old) ==
    [distances |-> floodFillToStart(w, old), overflow |-> FALSE]

\* floodFillToStartWithExploration(): the field, and whether the queue
\* overflowed (the behaviour is undefined from there on).
floodFillToStartWithExploration(w, vis, old) ==
    NormalizeUnlessLost(
        ExploreLoop(w, vis,
                    [distances |-> SeedDistances(ResetField(old), << <<0, 0>> >>),
                     queue |-> << <<0, 0>> >>, overflow |-> FALSE], 0))

\* The field r in the globals: the program is lost when the queue overflowed.
StoreField(m, r) ==
    [m EXCEPT !.distances = r.distances,
              !.status = IF r.overflow THEN "aborted" ELSE @]

\* The call of floodFillToStartWithExploration() on the machine.
ExploreFill(m) ==
    StoreField(m, floodFillToStartWithExploration(m.walls, m.visited, m.distances))

\* The call of floodFillToStartWithExploration() made from site.
ExploreFillAt(m, site) == ExploreFill([m EXCEPT !.explore = @ \cup {site}])

\* updateDisplay(): in RETURN_MODE before the exploration phase is
\* complete, every unvisited cell that is neither the current cell nor a goal
\* cell floods the field to the goal and back with the exploration fill;
\* otherwise nothing of the program's state changes.
updateDisplay(m) ==
    IF /\ m.status = "running"
       /\ m.currentMode = RETURN_MODE
       /\ ~m.explorePhaseComplete
       /\ \E c \in Cells : /\ c # <<m.posX, m.posY>>
                           /\ ~is_at_goal(c)
                           /\ ~m.visited[c[1]][c[2]]
    THEN ExploreFillAt([m EXCEPT !.distances =
                           floodFillToGoal(m.walls, m.posX, m.posY, m.distances)],
                       "display")
    ELSE m

\* The field the direction scan of moveToNextCell reads: the distance less
\* the bonus of 1 for an unvisited cell in SEARCH_MODE.
AdjustedField(m) ==
    [x \in Xs |-> [y \in Ys |->
        m.distances[x][y] -
            (IF m.currentMode = SEARCH_MODE /\ ~m.visited[x][y] THEN 1 ELSE 0)]]

\* if (API_moveForward()) ... else ...: the step, or the wall recorded on
\* both sides of the edge ahead.
MoveOrRecord(m, mz) ==
    LET c == AfterMoveCall(m, mz)
        p == <<m.posX, m.posY>>
    IN  IF MoveSucceeds(m, mz)
        THEN [c EXCEPT !.posX = @ + dx[m.direction], !.posY = @ + dy[m.direction],
                       !.moved = @ + 1]
        ELSE [c EXCEPT !.walls = WriteWall(@, p, m.direction, TRUE),
                       !.failed = @ \cup {<<p, m.direction>>}]

\* moveToNextCell() after a failed move: the field is flooded again for the
\* current mode.
RefillAfterFailure(a) ==
    IF a.failed = {} THEN a
    ELSE IF a.currentMode = SEARCH_MODE
         THEN [a EXCEPT !.distances = floodFillToGoal(a.walls, a.posX, a.posY, a.distances)]
         ELSE IF a.currentMode = RETURN_MODE
              THEN [a EXCEPT !.distances = floodFillToStart(a.walls, a.distances)]
              ELSE a

\* moveToNextCell() from the direction scan on: no move when no side is
\* open, else the turn and the move.
StepToward(m, mz, pick) ==
    IF pick.dir = -1 THEN m
    ELSE RefillAfterFailure(MoveOrRecord(TurnTo(m, pick.dir), mz))

\* moveToNextCell().
moveToNextCell(m, mz) ==
    StepToward(m, mz,
               LowestNeighbor(m.walls, AdjustedField(m), <<m.posX, m.posY>>, MAX_CELLS))

\* getMazeCoverage() > 0.75.
CoverageAbove(vis) ==
    4 * Cardinality({c \in Cells : vis[c[1]][c[2]]}) > 3 * MAX_CELLS

\* criticalPathsExplored(), after its floodFillToGoal left the field dist:
\* no unvisited cell at most as far from the goal as the start has an open
\* neighbour one step nearer.
NoUnvisitedInPath(w, vis, dist) ==
    ~\E c \in Cells :
        /\ dist[c[1]][c[2]] <= dist[0][0]
        /\ ~vis[c[1]][c[2]]
        /\ \E dir \in Dirs :
              /\ ~w[c[1]][c[2]][dir]
              /\ is_within_bounds(Neighbor(c, dir))
              /\ dist[c[1] + dx[dir]][c[2] + dy[dir]] = dist[c[1]][c[2]] - 1

\* moveToNextCellReturn() after a failed move: the field is flooded again,
\* to the start or with the exploration fill.
ReturnRefill(a) ==
    IF a.failed = {} THEN a
    ELSE IF a.explorePhaseComplete
         THEN [a EXCEPT !.distances = floodFillToStart(a.walls, a.distances)]
         ELSE ExploreFillAt(a, "refill")

\* moveToNextCellReturn() from the direction scan on: the field is flooded to
\* the start when no side is open, else the turn and the move.
ReturnStep(m, mz, pick) ==
    IF pick.dir = -1
    THEN [m EXCEPT !.distances = floodFillToStart(m.walls, m.distances)]
    ELSE ReturnRefill(MoveOrRecord(TurnTo(m, pick.dir), mz))

\* moveToNextCellReturn(), the move once the field is filled.
ReturnMove(m, mz) ==
    IF m.status # "running" THEN m
    ELSE ReturnStep(m, mz,
                    LowestNeighbor(m.walls, m.distances, <<m.posX, m.posY>>, MAX_CELLS))

\* moveToNextCellReturn(), the field: goalField is what floodFillToGoal left
\* for criticalPathsExplored; the exploration phase is complete on enough
\* coverage, with the critical paths explored, or at the start.
ReturnFill(m, goalField) ==
    IF \/ CoverageAbove(m.visited)
       \/ NoUnvisitedInPath(m.walls, m.visited, goalField)
       \/ (m.posX = 0 /\ m.posY = 0)
    THEN [m EXCEPT !.explorePhaseComplete = TRUE,
                   !.distances = floodFillToStart(m.walls, m.distances)]
    ELSE ExploreFillAt([m EXCEPT !.distances = goalField], "fill")

\* moveToNextCellReturn() once the walls are sensed.
ReturnFromGoal(m, mz) ==
    ReturnMove(ReturnFill(m, floodFillToGoal(m.walls, m.posX, m.posY, m.distances)), mz)

\* moveToNextCellReturn(); r is what the sensors answer now: the walls are
\* sensed again on the first call.
moveToNextCellReturn(m, mz, r) ==
    ReturnFromGoal(IF m.justReachedGoal
                   THEN [updateWalls(m, r) EXCEPT !.justReachedGoal = FALSE]
                   ELSE m,
                   mz)

\* The path r in the globals; a write past the end of fastestPath loses the
\* program.
StorePath(m, r) ==
    [m EXCEPT !.distances = r.distances, !.fastestPath = r.fastestPath,
              !.pathLength = r.pathLength,
              !.status = IF r.overflow THEN "aborted" ELSE @]

\* computeShortestPath() on the machine.
ComputePath(m) ==
    StorePath(m, computeShortestPath(m.walls, m.posX, m.posY, m.distances, m.fastestPath))

\* recomputePathIfNeeded(), after its updateWalls().
recomputePathIfNeeded(m) ==
    LET moveDir == DirBetween(<<m.posX, m.posY>>, m.fastestPath[1])
    IN  IF m.pathLength > 1 /\ moveDir # -1 /\ m.walls[m.posX][m.posY][moveDir]
        THEN ComputePath(m)
        ELSE m

\* if (API_wasReset()) { API_ackReset(); } of prepareForSpeedRun(): a reset
\* of the simulator since the poll of main is acknowledged, and that is all.
AckReset(m) ==
    IF m.lateReset
    THEN SimulatorReset([m EXCEPT !.lateReset = FALSE, !.acked = TRUE, !.events = @ + 1])
    ELSE m

\* prepareForSpeedRun(): at the start only; a reset is acknowledged, the
\* mouse turns to NORTH, the walls are sensed (twice, to the same answers)
\* and the path is computed again when its first step is walled.
prepareForSpeedRun(m, mz) ==
    IF m.status # "running" \/ m.posX # 0 \/ m.posY # 0 THEN m
    ELSE LET n == TurnNorth(AckReset(m))
         IN  recomputePathIfNeeded(updateWalls(n, Readings(n, mz, 0)))

\* followShortestPath(), the for-loop from index i.
RECURSIVE FollowLoop(_, _, _)
FollowLoop(m, mz, i) ==
    IF i >= m.pathLength THEN m
    ELSE LET moveDir == DirBetween(<<m.posX, m.posY>>, m.fastestPath[i])
         IN  IF moveDir = -1 THEN m
             ELSE LET t == TurnTo(m, moveDir)
                      c == AfterMoveCall(t, mz)
                  IN  IF ~MoveSucceeds(t, mz)
                      THEN [c EXCEPT !.failed = @ \cup {<< <<t.posX, t.posY>>, t.direction >>}]
                      ELSE FollowLoop([c EXCEPT !.posX = m.fastestPath[i][1],
                                                !.posY = m.fastestPath[i][2],
                                                !.moved = @ + 1], mz, i + 1)

\* followShortestPath().
followShortestPath(m, mz) ==
    LET n == TurnNorth(m)
    IN  FollowLoop(updateWalls(n, Readings(n, mz, 0)), mz, 1)

\* ------------------------------------------------------------ ffv3.c
\* init_simulation(): init_maze, init_mouse, flood_fill_goal.
init_simulation(m) ==
    [m EXCEPT !.walls = BoundaryWalls,
              !.visited = [x \in Xs |-> [y \in Ys |-> x = 0 /\ y = 0]],
              !.posX = 0, !.posY = 0, !.direction = NORTH,
              !.currentMode = SEARCH_MODE, !.goalFound = FALSE, !.pathLength = 0,
              !.distances = flood_fill_goal(BoundaryWalls, ResetField(m.distances))]

\* if (API_wallFront()) set_wall(...): the wall is set when sensed.
set_wall_if(w, p, dir, sensed) == IF sensed THEN set_wall(w, p, dir) ELSE w

\* The mutant of update_walls_current_cell: the wall sensed on the right is
\* set on the left and the wall sensed on the left on the right.
update_walls_current_cell_Swapped(m, r) ==
    [m EXCEPT !.walls =
        set_wall_if(
            set_wall_if(
                set_wall_if(@, <<m.posX, m.posY>>, m.direction, r.front),
                <<m.posX, m.posY>>, (m.direction + 3) % DIRECTION_COUNT, r.right),
            <<m.posX, m.posY>>, (m.direction + 1) % DIRECTION_COUNT, r.left)]

\* update_walls_current_cell(ms, m): a sensed wall is set, none is cleared.
update_walls_current_cell(m, r) ==
    [m EXCEPT !.walls =
        set_wall_if(
            set_wall_if(
                set_wall_if(@, <<m.posX, m.posY>>, m.direction, r.front),
                <<m.posX, m.posY>>, (m.direction + 1) % DIRECTION_COUNT, r.right),
            <<m.posX, m.posY>>, (m.direction + 3) % DIRECTION_COUNT, r.left)]

\* The mutant of choose_next_direction: an unvisited neighbour counts as any
\* other.
choose_next_direction_NoBonus(m) ==
    LET pick == LowestNeighbor(m.walls, m.distances, <<m.posX, m.posY>>,
                               INVALID_DISTANCE + 10)
    IN  IF pick.dir = -1 THEN get_opposite_direction(m.direction) ELSE pick.dir

\* choose_next_direction(ms, m): the open side with the lowest distance, an
\* unvisited neighbour counting 1 less in SEARCH_MODE; the opposite of the
\* orientation when no side is open.
choose_next_direction(m) ==
    LET pick == LowestNeighbor(m.walls, AdjustedField(m), <<m.posX, m.posY>>,
                               INVALID_DISTANCE + 10)
    IN  IF pick.dir = -1 THEN get_opposite_direction(m.direction) ELSE pick.dir

\* if (API_moveForward()) ... else set_wall(...): the step, or the wall set
\* ahead of the mouse t, which has turned.
MoveOrSetWall(t, mz) ==
    IF MoveSucceeds(t, mz)
    THEN [AfterMoveCall(t, mz) EXCEPT !.posX = @ + dx[t.direction],
                                      !.posY = @ + dy[t.direction],
                                      !.moved = @ + 1]
    ELSE [AfterMoveCall(t, mz) EXCEPT
              !.walls = set_wall(@, <<t.posX, t.posY>>, t.direction),
              !.failed = @ \cup {<< <<t.posX, t.posY>>, t.direction >>}]

\* After a failed move the field is flooded again for the current mode.
RefillAfterFailureV3(a) ==
    IF a.failed = {} THEN a
    ELSE [a EXCEPT !.distances =
              IF a.currentMode = SEARCH_MODE THEN flood_fill_goal(a.walls, @)
              ELSE IF a.currentMode = RETURN_MODE THEN flood_fill_start(a.walls, @)
              ELSE @]

\* The call of choose_next_direction that answered dir, kept for the
\* properties: the cell, the mode, and the maps it read.
NoteChoice(m, dir) ==
    [m EXCEPT !.scan = {[at |-> <<m.posX, m.posY>>, mode |-> m.currentMode,
                         walls |-> m.walls, distances |-> m.distances,
                         visited |-> m.visited, facing |-> m.direction, dir |-> dir]}]

\* Direction next_dir = choose_next_direction(ms, m); turn_to_direction(ms,
\* next_dir).
TurnChosen(m, dir) == TurnToDirection(NoteChoice(m, dir), dir)

\* The mutant of move_forward_update_state: after a failed move the wall is
\* set but the distances are not computed again.
move_forward_update_state_NoRefill(m, mz) ==
    MoveOrSetWall(TurnChosen(m, choose_next_direction(m)), mz)

\* move_forward_update_state(ms, m).
move_forward_update_state(m, mz) ==
    RefillAfterFailureV3(MoveOrSetWall(TurnChosen(m, choose_next_direction(m)), mz))

\* The path r in the mouse state.
StorePathV3(m, r) ==
    [m EXCEPT !.distances = r.distances, !.fastestPath = r.fastestPath,
              !.pathLength = r.pathLength]

\* compute_shortest_path(ms, m) on the machine.
ComputePathV3(m) ==
    StorePathV3(m, compute_shortest_path(m.walls, m.distances, m.fastestPath))

\* The mutant of verify_path_exploration: no path passes.
verify_path_exploration_Never(m) == FALSE

\* verify_path_exploration(ms, m).
verify_path_exploration(m) ==
    /\ m.pathLength > 1
    /\ \A i \in 0 .. (m.pathLength - 1) :
          LET p == m.fastestPath[i]
          IN  /\ is_within_bounds(p)
              /\ m.visited[p[1]][p[2]]
              /\ i > 0 =>
                    LET move_dir == DirBetween(m.fastestPath[i - 1], p)
                    IN  move_dir # -1 /\ ~has_wall(m.walls, m.fastestPath[i - 1], move_dir)

\* The first unvisited cell of the path, the current cell when there is none.
TargetUnvisited(m) ==
    LET idx == {i \in 0 .. (m.pathLength - 1) :
                   ~m.visited[m.fastestPath[i][1]][m.fastestPath[i][2]]}
    IN  IF idx = {} THEN <<m.posX, m.posY>>
        ELSE m.fastestPath[CHOOSE i \in idx : \A j \in idx : i <= j]

\* follow_shortest_path(ms, m), the for-loop from index i.
RECURSIVE FollowLoopV3(_, _, _)
FollowLoopV3(m, mz, i) ==
    IF i >= m.pathLength THEN m
    ELSE LET move_dir == DirBetween(<<m.posX, m.posY>>, m.fastestPath[i])
         IN  IF move_dir = -1 THEN m
             ELSE LET t == TurnToDirection(m, move_dir)
                      c == AfterMoveCall(t, mz)
                      p == <<t.posX, t.posY>>
                  IN  IF MoveSucceeds(t, mz)
                      THEN FollowLoopV3([c EXCEPT !.posX = m.fastestPath[i][1],
                                                  !.posY = m.fastestPath[i][2],
                                                  !.moved = @ + 1], mz, i + 1)
                      ELSE [c EXCEPT !.walls = set_wall(@, p, t.direction),
                                     !.failed = @ \cup {<<p, t.direction>>}]

\* The mutant of follow_shortest_path: the loop starts at the third cell.
follow_shortest_path_FromTwo(m, mz) ==
    IF ~is_at_start(<<m.posX, m.posY>>) THEN m
    ELSE LET n == TurnToDirection(m, NORTH)
         IN  IF n.pathLength <= 1 THEN n ELSE FollowLoopV3(n, mz, 2)

\* The mutant of follow_shortest_path: the path is computed again when the
\* loop has ended.
follow_shortest_path_Replan(m, mz) ==
    IF ~is_at_start(<<m.posX, m.posY>>) THEN m
    ELSE IF m.pathLength <= 1 THEN TurnToDirection(m, NORTH)
    ELSE ComputePathV3(FollowLoopV3(TurnToDirection(m, NORTH), mz, 1))

\* follow_shortest_path(ms, m).
follow_shortest_path(m, mz) ==
    IF ~is_at_start(<<m.posX, m.posY>>) THEN m
    ELSE LET n == TurnToDirection(m, NORTH)
         IN  IF n.pathLength <= 1 THEN n ELSE FollowLoopV3(n, mz, 1)

\* ------------------------------------------------------------ the main loops
\* The mazes the programs run in.  In RingMaze a corridor runs from the
\* start north around the rim of the grid and enters the inner cells from
\* <<GOAL_X1, 0>>; CoverMaze and CoverMaze2 make ffv3.c visit every cell of
\* the 4x4 grid before it is back at the start.
RingMaze ==
    LET OnRim(c) == c[1] = 0 \/ c[2] = 0 \/ c[1] = MAZE_WIDTH - 1 \/ c[2] = MAZE_HEIGHT - 1
    IN  WallMap(({e \in Edges : OnRim(e[1]) # OnRim(Neighbor(e[1], e[2]))}
                     \ {<< <<GOAL_X1, 0>>, NORTH >>})
                \cup {<< <<0, 0>>, EAST >>})

CoverMaze ==
    WallMap({<< <<0, 2>>, EAST >>, << <<2, 2>>, NORTH >>, << <<1, 0>>, NORTH >>,
             << <<0, 1>>, EAST >>, << <<1, 2>>, NORTH >>, << <<2, 1>>, EAST >>,
             << <<2, 0>>, NORTH >>})

CoverMaze2 ==
    WallMap({<< <<0, 1>>, EAST >>, << <<0, 2>>, EAST >>, << <<1, 0>>, NORTH >>,
             << <<1, 1>>, EAST >>, << <<1, 2>>, NORTH >>, << <<2, 0>>, NORTH >>,
             << <<2, 2>>, NORTH >>, << <<3, 1>>, NORTH >>})

\* In DetourMaze the way north from the start reaches the goal block around
\* two walls, while the shorter way east stays unseen.
DetourMaze == WallMap({<< <<0, 1>>, EAST >>, << <<1, 1>>, NORTH >>})

\* In PocketMaze a corridor runs from the start north and east around to the
\* goal cell <<GOAL_X2, GOAL_Y2>>, walled off from the other goal cells; the
\* cells south of it are never seen, and three quarters of the cells are
\* visited when the goal is reached.
PocketMaze ==
    WallMap({<< <<0, 0>>, EAST >>, << <<0, 1>>, EAST >>, << <<0, 2>>, EAST >>,
             << <<1, 2>>, NORTH >>, << <<2, 2>>, NORTH >>, << <<3, 1>>, NORTH >>,
             << <<1, 2>>, EAST >>, << <<2, 1>>, NORTH >>})

Mazes == {BoundaryWalls, RingMaze, CoverMaze, CoverMaze2, DetourMaze, PocketMaze}

\* The mutant of MarkGoalVisited: the flags of the other cells are dropped.
MarkGoalVisited_Only(vis) ==
    [x \in Xs |-> [y \in Ys |-> is_at_goal(<<x, y>>)]]

\* ff.c main(), on reaching the goal: the four goal cells are marked visited.
MarkGoalVisited(vis) ==
    [x \in Xs |-> [y \in Ys |-> is_at_goal(<<x, y>>) \/ vis[x][y]]]

\* visited[posX][posY] = true.
MarkVisited(m) == [m EXCEPT !.visited[m.posX][m.posY] = TRUE]

\* The top of an iteration of ff.c main(): updateWalls (flip: which sensor
\* answers wrongly), the visited flag, updateDisplay.
FfSense(m, mz, flip) ==
    updateDisplay(MarkVisited(
        updateWalls([m EXCEPT !.events = IF flip # 0 THEN @ + 1 ELSE @],
                    Readings(m, mz, flip))))

\* The mutant of EnterSpeedMode: the mode falls back to SEARCH_MODE.
EnterSpeedMode_Search(s) ==
    IF s.status # "running" THEN s
    ELSE [s EXCEPT !.currentMode = SEARCH_MODE]

\* RETURN_MODE at the start, after computeShortestPath and
\* prepareForSpeedRun: currentMode = SPEED_MODE.
EnterSpeedMode(s) ==
    IF s.status # "running" THEN s
    ELSE [s EXCEPT !.currentMode = SPEED_MODE]

\* The mutant of SpeedRun: main does not return after followShortestPath.
SpeedRun_NoReturn(s, mz) ==
    IF s.status # "running" THEN s
    ELSE IF DirBetween(<<s.posX, s.posY>>, s.fastestPath[1]) # -1
            /\ s.walls[s.posX][s.posY][DirBetween(<<s.posX, s.posY>>, s.fastestPath[1])]
         THEN [s EXCEPT !.status = "done"]
         ELSE followShortestPath(s, mz)

\* SPEED_MODE after prepareForSpeedRun: main returns, at once when the first
\* step of the path is walled, else after followShortestPath.
SpeedRun(s, mz) ==
    LET moveDir == DirBetween(<<s.posX, s.posY>>, s.fastestPath[1])
    IN  IF s.status # "running" THEN s
        ELSE IF moveDir # -1 /\ s.walls[s.posX][s.posY][moveDir]
             THEN [s EXCEPT !.status = "done"]
             ELSE [followShortestPath(s, mz) EXCEPT !.status = "done"]

\* switch (currentMode) of ff.c main().
FfSwitch(m, mz) ==
    IF m.status # "running" THEN m
    ELSE IF m.currentMode = SEARCH_MODE
    THEN IF is_at_goal(<<m.posX, m.posY>>)
         THEN updateDisplay(
                  [m EXCEPT !.goalFound = TRUE, !.currentMode = RETURN_MODE,
                            !.visited = MarkGoalVisited(@),
                            !.explorePhaseComplete = FALSE,
                            !.distances = floodFillToStart(m.walls, @)])
         ELSE moveToNextCell(
                  [m EXCEPT !.distances = floodFillToGoal(m.walls, m.posX, m.posY, @)],
                  mz)
    ELSE IF m.currentMode = RETURN_MODE
    THEN IF is_at_start(<<m.posX, m.posY>>)
         THEN EnterSpeedMode(prepareForSpeedRun(ComputePath(m), mz))
         ELSE moveToNextCellReturn(m, mz, Readings(m, mz, 0))
    ELSE SpeedRun(prepareForSpeedRun(m, mz), mz)

\* if (API_wasReset()) { ... } of ff.c main(): the mission state is set back
\* and the maze is initialised again.
HandleReset(m) ==
    initializeMaze([m EXCEPT !.posX = 0, !.posY = 0, !.direction = NORTH,
                             !.currentMode = SEARCH_MODE,
                             !.goalFound = FALSE, !.pathLength = 0])

\* One iteration of the while-loop of ff.c main() in the maze mz: reset says
\* API_wasReset() answers true, flip which sensor answers wrongly.
FfIteration(m0, mz, reset, flip) ==
    FfSwitch(
        FfSense(IF reset THEN HandleReset(SimulatorReset([m0 EXCEPT !.events = @ + 1]))
                ELSE m0,
                mz, flip),
        mz)

\* The top of an iteration of ffv3.c main(): update_walls_current_cell and
\* the visited flag.
V3Sense(m, mz, flip) ==
    MarkVisited(
        update_walls_current_cell([m EXCEPT !.events = IF flip # 0 THEN @ + 1 ELSE @],
                                  Readings(m, mz, flip)))

\* RETURN_MODE at the start, the path computed: SPEED_MODE when the path is
\* verified, else SEARCH_MODE toward its first unvisited cell, or toward the
\* goal when there is no path.
V3AtStart(c) ==
    IF c.pathLength > 0
    THEN IF verify_path_exploration(c)
         THEN [c EXCEPT !.currentMode = SPEED_MODE]
         ELSE [c EXCEPT !.distances = flood_fill(c.walls, TargetUnvisited(c), @),
                        !.currentMode = SEARCH_MODE]
    ELSE [c EXCEPT !.distances = flood_fill_goal(c.walls, @),
                   !.currentMode = SEARCH_MODE]

\* switch (mouse.mode) of ffv3.c main().
V3Switch(m, mz) ==
    IF m.currentMode = SEARCH_MODE
    THEN IF is_at_goal(<<m.posX, m.posY>>)
         THEN [m EXCEPT !.goalFound = TRUE, !.currentMode = RETURN_MODE,
                        !.distances = flood_fill_start(m.walls, @)]
         ELSE move_forward_update_state(
                  [m EXCEPT !.distances = flood_fill_goal(m.walls, @)], mz)
    ELSE IF m.currentMode = RETURN_MODE
    THEN IF is_at_start(<<m.posX, m.posY>>)
         THEN V3AtStart(ComputePathV3(update_walls_current_cell(m, Readings(m, mz, 0))))
         ELSE move_forward_update_state(
                  [m EXCEPT !.distances = flood_fill_start(m.walls, @)], mz)
    ELSE [follow_shortest_path(m, mz) EXCEPT !.status = "done"]

\* One iteration of the while-loop of ffv3.c main().
V3Iteration(m0, mz, reset, flip) ==
    V3Switch(
        V3Sense(IF reset THEN init_simulation(SimulatorReset([m0 EXCEPT !.events = @ + 1]))
                ELSE m0,
                mz, flip),
        mz)

\* The state after construction of program p (ff.c: initializeMaze();
\* ffv3.c: init_simulation()), standing in one of the mazes.
MainInit ==
    /\ prog \in {"ff", "ffv3"}
    /\ posX = 0 /\ posY = 0 /\ direction = NORTH
    /\ currentMode = SEARCH_MODE
    /\ goalFound = FALSE
    /\ explorePhaseComplete = FALSE
    /\ justReachedGoal = TRUE
    /\ walls = BoundaryWalls
    /\ distances = IF prog = "ff" THEN floodFillToGoal(BoundaryWalls, 0, 0, AllInvalid)
                   ELSE flood_fill_goal(BoundaryWalls, AllInvalid)
    /\ visited = [x \in Xs |-> [y \in Ys |-> x = 0 /\ y = 0]]
    /\ fastestPath = EmptyPath
    /\ pathLength = 0
    /\ status = "running"
    /\ env \in [kind : {"maze"}, maze : Mazes, events : {0}, robot : {RobotAtStart}]
    /\ log = [op |-> "init", reset |-> FALSE, mode |-> SEARCH_MODE, from |-> <<0, 0>>,
              failed |-> {}, moved |-> 0, bumped |-> {}, full |-> FALSE,
              acts |-> << >>, scan |-> {}, target |-> {}, explore |-> {}, late |-> FALSE]

\* The events a tick may meet: at most MaxEvents in a run; a move fails for
\* no wall only where a move is made; the simulator is reset after the poll
\* of main (late) only in the ticks of ff.c that call prepareForSpeedRun,
\* which polls again: at the start, in RETURN_MODE or SPEED_MODE.
TickInputs ==
    {i \in [reset : BOOLEAN, flip : 0 .. 3, bumpAt : 0 .. (MAX_CELLS - 1), late : BOOLEAN] :
        /\ env.events + (IF i.reset THEN 1 ELSE 0) + (IF i.flip # 0 THEN 1 ELSE 0)
              + (IF i.bumpAt # 0 THEN 1 ELSE 0) + (IF i.late THEN 1 ELSE 0) <= MaxEvents
        /\ i.bumpAt <= (IF currentMode = SPEED_MODE /\ ~i.reset THEN pathLength ELSE 1)
        /\ i.late => /\ prog = "ff" /\ currentMode \in {RETURN_MODE, SPEED_MODE}
                     /\ pos = <<0, 0>>}

\* The cell ffv3.c floods toward since its path verification failed on an
\* unvisited cell of the path (lines 156-170), until a tick starts on that
\* cell, the mode leaves SEARCH_MODE or the simulator is reset; mode and
\* from are the mode and the cell the tick acted in, r the machine it left.
PendingTarget(reset, mode, from, r) ==
    IF /\ prog = "ffv3" /\ mode = RETURN_MODE /\ is_at_start(from)
       /\ r.currentMode = SEARCH_MODE /\ r.pathLength > 0
       /\ \E k \in 0 .. (r.pathLength - 1) :
             ~r.visited[r.fastestPath[k][1]][r.fastestPath[k][2]]
    THEN {TargetUnvisited(r)}
    ELSE IF reset \/ r.currentMode # SEARCH_MODE \/ from \in log.target
         THEN {}
         ELSE log.target

\* What the tick that took the machine to r leaves behind: the globals, the
\* events counted, and in the log the mode and cell the tick acted in, its
\* failed moves, the walls failed moves recorded since the last reset,
\* whether every cell was visited when RETURN_MODE last stood at the start,
\* the actuations issued, the call of choose_next_direction, the cell a
\* failed verification made the target, where the exploration fill was
\* called from, and whether a reset was acknowledged with the state kept.
\* When the program was lost, the field is as the fill left it or anything
\* else (here: all zero).
TickResult(i, r) ==
    LET mode == IF i.reset THEN SEARCH_MODE ELSE currentMode
        from == IF i.reset THEN <<0, 0>> ELSE pos
    IN  /\ posX' = r.posX /\ posY' = r.posY /\ direction' = r.direction
        /\ currentMode' = r.currentMode
        /\ goalFound' = r.goalFound
        /\ explorePhaseComplete' = r.explorePhaseComplete
        /\ justReachedGoal' = r.justReachedGoal
        /\ distances' \in (IF r.status = "aborted" THEN {r.distances, ZeroField}
                           ELSE {r.distances})
        /\ walls' = r.walls
        /\ visited' = r.visited
        /\ fastestPath' = r.fastestPath
        /\ pathLength' = r.pathLength
        /\ status' = r.status
        /\ env' = [env EXCEPT !.events = r.events, !.robot = r.robot]
        /\ log' = [op |-> "tick", reset |-> i.reset, mode |-> mode, from |-> from,
                   failed |-> r.failed, moved |-> r.moved,
                   bumped |-> (IF i.reset THEN {} ELSE log.bumped)
                              \cup (IF mode # SPEED_MODE THEN r.failed ELSE {}),
                   full |-> IF mode = RETURN_MODE /\ is_at_start(from)
                            THEN \A c \in Cells : r.visited[c[1]][c[2]]
                            ELSE ~i.reset /\ log.full,
                   acts |-> r.acts, scan |-> r.scan,
                   explore |-> r.explore, late |-> r.acked,
                   target |-> PendingTarget(i.reset, mode, from, r)]
        /\ UNCHANGED prog

\* One iteration of the main loop of ff.c.
FfTick ==
    /\ prog = "ff"
    /\ status = "running"
    /\ \E i \in TickInputs :
          TickResult(i, FfIteration([Machine EXCEPT !.bumpIn = i.bumpAt,
                                                    !.lateReset = i.late],
                                    env.maze, i.reset, i.flip))

\* One iteration of the main loop of ffv3.c.
V3Tick ==
    /\ prog = "ffv3"
    /\ status = "running"
    /\ \E i \in TickInputs :
          TickResult(i, V3Iteration([Machine EXCEPT !.bumpIn = i.bumpAt],
                                    env.maze, i.reset, i.flip))

Next ==
    \/ FfTick
    \/ V3Tick

Spec == MainInit /\ [][Next]_vars

\* ------------------------------------------------------------ C2
\* C2: in every state the control loops of ff.c and ffv3.c reach, each
\* interior edge carries the same wall flag from both of its cells.
C2_WallSymmetry == prog \in {"ff", "ffv3"} => WallsSymmetric(walls)

\* A failed move has recorded an interior wall after sensing set others.
C2_Witness ==
    /\ log.op = "tick"
    /\ \E e \in log.failed : is_within_bounds(Neighbor(e[1], e[2]))
    /\ \E e \in Edges : walls[e[1][1]][e[1][2]][e[2]] /\ <<e[1], e[2]>> \notin log.failed

\* ------------------------------------------------------------ C3, C4
\* The first n cells of the path array as a walk: each cell and the next are
\* four-adjacent and no wall is recorded between them from either endpoint.
PathValid(w, path, n) ==
    \A i \in 0 .. (n - 2) :
        \E d \in Dirs : Neighbor(path[i], d) = path[i + 1] /\ OpenEdge(w, path[i], d)

\* C3: in any path computeShortestPath or compute_shortest_path produces,
\* every two consecutive cells are four-adjacent and the wall map records no
\* wall between them from either endpoint.
C3_PathValid ==
    log.op \in {"path_ff", "path_v3"} => PathValid(walls, fastestPath, pathLength)

\* A computed path that bends around recorded walls: it is longer than the
\* Manhattan distance between its ends.
C3_Witness ==
    /\ log.op \in {"path_ff", "path_v3"}
    /\ pathLength >= 4
    /\ is_at_goal(fastestPath[pathLength - 1])
    /\ pathLength - 1 > fastestPath[pathLength - 1][1] + fastestPath[pathLength - 1][2]

\* C4: from the start cell, ff.c computeShortestPath yields a path whose
\* first cell is the start and whose last cell is a goal cell, pathLength - 1
\* being the minimum number of open-edge hops from the start to the nearest
\* goal cell under the wall map (GOAL_X1 + GOAL_Y1 on the empty map); stated
\* for the maps on which some goal cell can be reached from the start.
C4_PathShortest ==
    (log.op = "path_ff" /\ MinHops(walls, GoalCells)[0][0] < INVALID_DISTANCE) =>
        /\ pathLength >= 1
        /\ fastestPath[0] = <<0, 0>>
        /\ is_at_goal(fastestPath[pathLength - 1])
        /\ pathLength - 1 = MinHops(walls, GoalCells)[0][0]
        /\ (walls = BoundaryWalls => pathLength - 1 = GOAL_X1 + GOAL_Y1)

\* The path of ff.c ends on a goal cell but is longer than the route to the
\* nearest goal cell.
C4_LongerPath ==
    /\ log.op = "path_ff"
    /\ is_at_goal(fastestPath[pathLength - 1])
    /\ pathLength - 1 > MinHops(walls, GoalCells)[0][0]

\* ------------------------------------------------------------ C6
\* C6: a flood fill run twice in a row on an unchanged wall map yields the
\* same distance array, and what a flood fill yields does not depend on the
\* distance array before the call: the same fill from the all-zero field
\* yields the same array.
C6_FillIdempotent ==
    [][log'.op = "fill" =>
          /\ (log'.again /\ walls' = walls) => distances' = distances
          /\ distances' = BfsRun(walls', log'.seeds, ZeroField).distances]_vars

\* The same fill has just run a second time, on a map with detours.
C6_Witness ==
    /\ log.op = "fill"
    /\ log.again
    /\ \E c \in Cells : distances[c[1]][c[2]] = INVALID_DISTANCE

\* ------------------------------------------------------------ C5
\* C5: a visited flag once set stays set by every tick but one that handles
\* a reset of the simulator.
C5_VisitedMonotonic ==
    [][log'.reset \/ \A c \in Cells : visited[c[1]][c[2]] => visited'[c[1]][c[2]]]_vars

\* ff.c has reached the goal and marked the goal cells, the cells visited
\* on the way still set.
C5_Witness ==
    /\ prog = "ff"
    /\ log.op = "tick" /\ ~log.reset
    /\ currentMode = RETURN_MODE
    /\ \E c \in Cells : ~is_at_goal(c) /\ c # <<0, 0>> /\ visited[c[1]][c[2]]

\* ------------------------------------------------------------ C7
\* The target of the flood fill of a phase: the goal in SEARCH_MODE (for
\* ff.c the goal cell floodFillToGoal picks), the start in RETURN_MODE.
PhaseTarget(mode) ==
    IF mode = RETURN_MODE THEN {<<0, 0>>}
    ELSE IF prog = "ff" THEN {GoalTarget(posX, posY)}
    ELSE GoalCells

\* C7: after a tick of SEARCH_MODE or RETURN_MODE in which API_moveForward
\* failed, the program runs on, the position is the one before the move, the
\* wall ahead is recorded on both sides of the edge, and the distances are
\* the flood fill to the target of the phase under the new wall map.
C7_FailedMove ==
    (log.op = "tick" /\ log.failed # {} /\ log.mode \in {SEARCH_MODE, RETURN_MODE}) =>
        /\ status = "running"
        /\ pos = log.from
        /\ log.failed = {<<pos, direction>>}
        /\ walls[posX][posY][direction]
        /\ is_within_bounds(Neighbor(pos, direction)) =>
              walls[posX + dx[direction]][posY + dy[direction]][get_opposite_direction(direction)]
        /\ distances = MinHops(walls, PhaseTarget(log.mode))

\* A move of ff.c failed on the way back to the start.
C7_Witness ==
    /\ prog = "ff"
    /\ log.op = "tick" /\ log.mode = RETURN_MODE
    /\ log.failed # {}

\* ------------------------------------------------------------ C8
\* C8: a wall that a failed move of ff.c has recorded is still recorded, on
\* both sides, after every later tick, whatever the sensors answer.
C8_FailedWallStays ==
    prog = "ff" =>
        \A e \in log.bumped :
            /\ walls[e[1][1]][e[1][2]][e[2]]
            /\ is_within_bounds(Neighbor(e[1], e[2])) =>
                  walls[e[1][1] + dx[e[2]]][e[1][2] + dy[e[2]]][get_opposite_direction(e[2])]

\* A wall that a failed move of ff.c recorded has been cleared by the
\* sensing of a later tick, and the mouse has crossed that edge.
C8_WallCleared ==
    /\ prog = "ff"
    /\ log.op = "tick" /\ ~log.reset
    /\ \E e \in log.bumped :
          /\ ~walls[e[1][1]][e[1][2]][e[2]]
          /\ pos = Neighbor(e[1], e[2])

\* ------------------------------------------------------------ C9
\* C9: ffv3.c in a static maze with consistent sensors (no event so far), in
\* which every cell is visited when RETURN_MODE stands at the start: the
\* path computed there passes verification (the mode becomes SPEED_MODE),
\* and the speed run makes exactly pathLength - 1 moves, none failing, and
\* ends on a goal cell.
C9_SpeedRunSucceeds ==
    (prog = "ffv3" /\ env.events = 0 /\ log.full) =>
        /\ pathLength > 1
        /\ status = "running" => currentMode = SPEED_MODE
        /\ status = "done" =>
              /\ log.moved = pathLength - 1
              /\ log.failed = {}
              /\ is_at_goal(pos)

\* The speed run of ffv3.c has ended in such a maze.
C9_Witness ==
    /\ prog = "ffv3" /\ env.events = 0 /\ log.full
    /\ status = "done"
    /\ log.moved >= 3

\* ------------------------------------------------------------ C10
\* The cells that still have a route to the seeds S which goes down the
\* field dist by one at every hop over an edge open in w: the seeds, then
\* layer by layer the cells one hop above a cell already found.
RECURSIVE DescendLayers(_, _, _, _, _)
DescendLayers(w, dist, layer, k, acc) ==
    IF layer = {} THEN acc
    ELSE LET next == {c \in Cells :
                        /\ dist[c[1]][c[2]] = k + 1
                        /\ \E d \in Dirs : OpenEdge(w, c, d) /\ Neighbor(c, d) \in layer}
         IN  DescendLayers(w, dist, next, k + 1, acc \cup next)

StillShortest(w, dist, S) == DescendLayers(w, dist, S, 0, S)

\* The path steps over the edge e.
PathCrosses(path, n, e) ==
    \E i \in 0 .. (n - 2) :
        {path[i], path[i + 1]} = {e[1], Neighbor(e[1], e[2])}

\* C10: adding walls never shortens a route.  When the field is flooded
\* again to the same target after walls were added, every cell's distance is
\* at least its previous value, and strictly greater for every cell that
\* had a route and whose shortest routes all crossed an added wall; a path
\* computed afterwards crosses no added wall.
C10_WallNeverShortens ==
    [][/\ (log'.op \in {"fill", "path_ff", "path_v3"} /\ log'.seeds = log.seeds) =>
            \A c \in Cells :
                /\ distances'[c[1]][c[2]] >= distances[c[1]][c[2]]
                /\ (/\ distances[c[1]][c[2]] < INVALID_DISTANCE
                    /\ c \notin StillShortest(walls', distances, SeedSet))
                       => distances'[c[1]][c[2]] > distances[c[1]][c[2]]
       /\ log'.op \in {"path_ff", "path_v3"} =>
            \A e \in log'.added : ~PathCrosses(fastestPath', pathLength', e)]_vars

\* A path to the goal computed after added walls raised distances: it is
\* longer than the path on the empty map.
C10_Witness ==
    /\ log.op \in {"path_ff", "path_v3"}
    /\ log.added # {}
    /\ log.raised
    /\ pathLength - 1 > GOAL_X1 + GOAL_Y1
    /\ is_at_goal(fastestPath[pathLength - 1])

\* ------------------------------------------------------------ C11
\* C11: in every state ff.c reaches after initialization, every wall flag on
\* the boundary of the grid (SOUTH on row 0, NORTH on the top row, WEST on
\* column 0, EAST on the last column) is true, whatever the sensors answer.
C11_BoundaryWallsStay ==
    prog = "ff" =>
        \A c \in Cells, d \in Dirs :
            BoundaryWalls[c[1]][c[2]][d] => walls[c[1]][c[2]][d]

\* A tick of ff.c has left a boundary flag of the cell it sensed in cleared.
C11_BoundaryCleared ==
    /\ prog = "ff"
    /\ log.op = "tick"
    /\ \E d \in Dirs :
          BoundaryWalls[log.from[1]][log.from[2]][d] /\ ~walls[log.from[1]][log.from[2]][d]

\* ------------------------------------------------------------ C12
\* C12: whenever the main loop of ff.c handles a reset, the state the reset
\* code leaves has every mission and grid variable at its value right after
\* program startup: position, orientation, mode, goalFound, pathLength,
\* walls, visited, distances, explorePhaseComplete and justReachedGoal.
C12_ResetRestoresAll ==
    [][(prog = "ff" /\ log'.reset) =>
          /\ HandleReset(Machine).posX = 0
          /\ HandleReset(Machine).posY = 0
          /\ HandleReset(Machine).direction = NORTH
          /\ HandleReset(Machine).currentMode = SEARCH_MODE
          /\ HandleReset(Machine).goalFound = FALSE
          /\ HandleReset(Machine).pathLength = 0
          /\ HandleReset(Machine).walls = BoundaryWalls
          /\ HandleReset(Machine).visited = [x \in Xs |-> [y \in Ys |-> x = 0 /\ y = 0]]
          /\ HandleReset(Machine).distances = floodFillToGoal(BoundaryWalls, 0, 0, AllInvalid)
          /\ HandleReset(Machine).explorePhaseComplete = FALSE
          /\ HandleReset(Machine).justReachedGoal = TRUE]_vars

\* A tick of ff.c has handled a reset and a return-phase flag still holds
\* what the run before the reset left in it.
C12_StaleFlags ==
    /\ prog = "ff"
    /\ log.op = "tick" /\ log.reset
    /\ explorePhaseComplete \/ ~justReachedGoal

\* ------------------------------------------------------------ C13
\* Every one of the first n cells of the path array has been visited.
PathVisited(vis, path, n) ==
    \A k \in 0 .. (n - 1) : vis[path[k][1]][path[k][2]]

C14_SearchTowardUnvisited ==
    [][prog = "ffv3" =>
          /\ (log'.mode = RETURN_MODE /\ is_at_start(log'.from) /\ log'.target # {}) =>
                /\ currentMode' = SEARCH_MODE
                /\ distances' = MinHops(walls', log'.target)
          /\ (log.target # {} /\ ~log'.reset /\ log'.from \notin log.target) =>
                \A s \in log'.scan :
                    s.mode = SEARCH_MODE /\ s.distances = MinHops(s.walls, log.target)]_vars

\* A SEARCH_MODE tick of ffv3.c has chosen its direction while the cell a
\* failed verification made the target was still ahead, and the field it
\* read was the flood fill rooted at the goal cells.
C14_GoalFieldRead ==
    /\ prog = "ffv3"
    /\ log.op = "tick" /\ log.mode = SEARCH_MODE
    /\ log.target # {} /\ log.from \notin log.target
    /\ \E s \in log.scan : s.distances = MinHops(s.walls, GoalCells)

\* ------------------------------------------------------------ C15
\* The number of API_moveForward calls among the actuations.
MoveCalls(acts) == Cardinality({k \in 1 .. Len(acts) : acts[k] = "F"})

\* C15: in a speed run (followShortestPath, follow_shortest_path) a failed
\* move ends the run: it is the last actuation issued, the mouse stays in
\* the cell of the path it had reached, facing the way it tried to move, the
\* path and the field are those the run started with (for ff.c: as
\* prepareForSpeedRun left them), and the program has ended.
C15_SpeedRunStopsOnFailure ==
    [][(log'.mode = SPEED_MODE /\ log'.failed # {}) =>
          /\ status' = "done"
          /\ log'.failed = {<<pos', direction'>>}
          /\ log'.acts[Len(log'.acts)] = "F"
          /\ MoveCalls(log'.acts) = log'.moved + 1
          /\ pos' = fastestPath'[log'.moved]
          /\ prog = "ffv3" =>
                /\ fastestPath' = fastestPath
                /\ pathLength' = pathLength
                /\ distances' = distances
          /\ prog = "ff" =>
                /\ fastestPath' = prepareForSpeedRun(Machine, env.maze).fastestPath
                /\ pathLength' = prepareForSpeedRun(Machine, env.maze).pathLength
                /\ distances' = prepareForSpeedRun(Machine, env.maze).distances]_vars

\* A speed run has stopped on a failed move after at least one move made.
C15_Witness ==
    /\ log.op = "tick" /\ log.mode = SPEED_MODE
    /\ log.failed # {}
    /\ log.moved >= 1

\* ------------------------------------------------------------ C16
\* C16: SPEED_MODE is terminal.  The tick that runs the SPEED_MODE branch
\* ends the program, its mode still SPEED_MODE, whether the replay reached
\* the end of the path or stopped; the replay makes at most one move call
\* for each index of the path; and no step follows that tick.
C16_SpeedTerminal ==
    [][/\ ~(log.op = "tick" /\ log.mode = SPEED_MODE)
       /\ log'.mode = SPEED_MODE =>
             /\ status' = "done"
             /\ currentMode' = SPEED_MODE
             /\ MoveCalls(log'.acts) <= (IF pathLength' > 1 THEN pathLength' - 1 ELSE 0)
             /\ log'.moved + Cardinality(log'.failed) = MoveCalls(log'.acts)]_vars

\* The SPEED_MODE branch of ff.c has replayed the whole path and the program
\* has ended.
C16_Witness ==
    /\ prog = "ff"
    /\ log.op = "tick" /\ log.mode = SPEED_MODE
    /\ status = "done"
    /\ log.failed = {}
    /\ log.moved = pathLength - 1 /\ log.moved >= 2

\* ------------------------------------------------------------ C18, C19
\* In the call s of choose_next_direction, side d of the cell has no recorded
\* wall and leads in bounds.
Selectable(s, d) ==
    ~s.walls[s.at[1]][s.at[2]][d] /\ is_within_bounds(Neighbor(s.at, d))

\* The adjusted distance of the neighbour on side d: its distance, minus 1
\* when the mode is SEARCH_MODE and the neighbour is unvisited.
AdjustedDistance(s, d) ==
    s.distances[s.at[1] + dx[d]][s.at[2] + dy[d]]
        - (IF s.mode = SEARCH_MODE /\ ~s.visited[s.at[1] + dx[d]][s.at[2] + dy[d]]
           THEN 1 ELSE 0)

\* C18: whenever some side of the current cell is selectable, the direction
\* choose_next_direction answers is selectable, its adjusted distance is at
\* most that of every selectable side, and no earlier selectable side in the
\* order NORTH, EAST, SOUTH, WEST has the same adjusted distance.
C18_ChoosesFirstLowest ==
    \A s \in log.scan :
        (\E d \in Dirs : Selectable(s, d)) =>
            /\ Selectable(s, s.dir)
            /\ \A d \in Dirs :
                  Selectable(s, d) => AdjustedDistance(s, s.dir) <= AdjustedDistance(s, d)
            /\ \A d \in Dirs :
                  (d < s.dir /\ Selectable(s, d)) =>
                      AdjustedDistance(s, d) # AdjustedDistance(s, s.dir)

\* A choice where the bonus of an unvisited neighbour decided against a side
\* earlier in the order, and a later side tied with the chosen one.
C18_Witness ==
    \E s \in log.scan :
        /\ \E d \in Dirs :
              /\ d < s.dir /\ Selectable(s, d)
              /\ s.distances[s.at[1] + dx[d]][s.at[2] + dy[d]]
                    <= s.distances[s.at[1] + dx[s.dir]][s.at[2] + dy[s.dir]]
        /\ \E d \in Dirs :
              /\ d > s.dir /\ Selectable(s, d)
              /\ AdjustedDistance(s, d) = AdjustedDistance(s, s.dir)

\* C19: in ffv3.c, when no side of the current cell is selectable, the tick
\* is a no-op: no turn and no move is issued, and the position, the
\* orientation and the wall map are at the end of the tick what they were
\* when choose_next_direction was called.
C19_StuckTickNoOp ==
    \A s \in log.scan :
        (\A d \in Dirs : ~Selectable(s, d)) =>
            /\ log.acts = << >>
            /\ pos = s.at
            /\ direction = s.facing
            /\ walls = s.walls

\* With no side selectable, ffv3.c has turned around and called
\* API_moveForward.
C19_TurnedAround ==
    \E s \in log.scan :
        /\ \A d \in Dirs : ~Selectable(s, d)
        /\ log.acts = <<"R", "R", "F">>
        /\ direction = get_opposite_direction(s.facing)

\* ------------------------------------------------------------ set_wall, turning and choosing alone
\* The cells one step outside the grid.
OutCells ==
    {p \in (-1 .. MAZE_WIDTH) \X (-1 .. MAZE_HEIGHT) : ~is_within_bounds(p)}

\* What an operation applied alone leaves in the log: its name, the cell and
\* direction it was called with, the wall map and the orientation it started
\* from, the actuations it issued, and the call of choose_next_direction.
UnitLog(op, p, dir, issued, scan) ==
    [op |-> op, p |-> p, dir |-> dir, before |-> walls, from |-> direction,
     issued |-> issued, scan |-> scan]

\* The state right after init_simulation, the wall map one of maps.
UnitInit(maps) ==
    /\ prog = "lib"
    /\ posX = 0 /\ posY = 0 /\ direction = NORTH
    /\ currentMode = SEARCH_MODE
    /\ goalFound = FALSE
    /\ explorePhaseComplete = FALSE
    /\ justReachedGoal = TRUE
    /\ walls \in maps
    /\ distances = flood_fill_goal(BoundaryWalls, AllInvalid)
    /\ visited = [x \in Xs |-> [y \in Ys |-> x = 0 /\ y = 0]]
    /\ fastestPath = EmptyPath
    /\ pathLength = 0
    /\ status = "running"
    /\ env = [kind |-> "none", events |-> 0, robot |-> RobotAtStart]
    /\ log = UnitLog("init", <<0, 0>>, NORTH, << >>, {})

\* The wall maps set_wall is called on: the boundary, and the boundary with
\* walls on one or two interior edges.
SetWallMaps == {BoundaryWalls} \cup {WallMap({e, f}) : e \in Edges, f \in Edges}

\* ffv3.c set_wall(m, p, dir), called once on the map, for a cell in the
\* grid or one step outside it.
SetWallUnit(p, dir) ==
    /\ log.op = "init"
    /\ walls' = set_wall(walls, p, dir)
    /\ log' = UnitLog("set_wall", p, dir, << >>, {})
    /\ UNCHANGED <<prog, mouseVars, distances, visited, fastestPath, pathLength, status, env>>

SetWallInit == UnitInit(SetWallMaps)

SetWallNext == \E p \in Cells \cup OutCells, dir \in Dirs : SetWallUnit(p, dir)

SpecSetWall == SetWallInit /\ [][SetWallNext]_vars

\* C17: has_wall answers true for every cell out of bounds in every
\* direction; set_wall called with a cell out of bounds leaves the whole wall
\* map as it was; set_wall on a cell in bounds sets the flag of that cell and
\* direction and the mirrored flag of the in-bounds neighbour, and every
\* other flag is as it was.
C17_WallAccessBounds ==
    /\ \A p \in OutCells, d \in Dirs : has_wall(walls, p, d)
    /\ (log.op = "set_wall" /\ ~is_within_bounds(log.p)) => walls = log.before
    /\ (log.op = "set_wall" /\ is_within_bounds(log.p)) =>
          \A c \in Cells, d \in Dirs :
              IF \/ (c = log.p /\ d = log.dir)
                 \/ (c = Neighbor(log.p, log.dir) /\ d = get_opposite_direction(log.dir))
              THEN walls[c[1]][c[2]][d]
              ELSE walls[c[1]][c[2]][d] = log.before[c[1]][c[2]][d]

\* set_wall has set both flags of an interior edge in a map that held a wall
\* already.
C17_Witness ==
    /\ log.op = "set_wall"
    /\ is_within_bounds(log.p) /\ is_within_bounds(Neighbor(log.p, log.dir))
    /\ log.before # BoundaryWalls
    /\ walls # log.before

\* The wall maps the direction is chosen under: the boundary, and the
\* boundary with a wall on one interior edge.
SteerWallMaps == {BoundaryWalls} \cup {WallMap({e}) : e \in Edges}

\* The neighbours in bounds of cell p.
NeighborCells(p) == {Neighbor(p, d) : d \in Dirs} \cap Cells

\* The mouse of ffv3.c in cell p in the given mode, every cell visited but
\* those of U, the field flooded for the mode: from the goal cells in
\* SEARCH_MODE, from the start otherwise.
Placed(p, mode, U) ==
    [Machine EXCEPT !.posX = p[1], !.posY = p[2], !.currentMode = mode,
                    !.visited = [x \in Xs |-> [y \in Ys |-> <<x, y>> \notin U]],
                    !.distances = IF mode = SEARCH_MODE
                                  THEN flood_fill_goal(walls, distances)
                                  ELSE flood_fill_start(walls, distances)]

\* ffv3.c choose_next_direction(ms, m), called once, for the mouse m.
ChooseUnit(m) ==
    /\ log.op = "init"
    /\ log' = UnitLog("choose", <<m.posX, m.posY>>, choose_next_direction(m), << >>,
                       NoteChoice(m, choose_next_direction(m)).scan)
    /\ UNCHANGED <<prog, mouseVars, walls, distances, visited, fastestPath, pathLength,
                   status, env>>

\* ffv3.c turn_to_direction(ms, target).
TurnUnit(target) ==
    /\ log.op # "choose"
    /\ direction' = turn_to_direction([orientation |-> direction, issued |-> << >>],
                                       target).orientation
    /\ log' = UnitLog("turn", pos, target,
                       turn_to_direction([orientation |-> direction, issued |-> << >>],
                                         target).issued, {})
    /\ UNCHANGED <<prog, posX, posY, currentMode, goalFound, explorePhaseComplete,
                   justReachedGoal, walls, distances, visited, fastestPath, pathLength,
                   status, env>>

\* The turn loop of ff.c moveToNextCell, moveToNextCellReturn and
\* followShortestPath toward target.
TurnLoopUnit(target) ==
    /\ log.op # "choose"
    /\ direction' = TurnLoop([orientation |-> direction, issued |-> << >>], target).orientation
    /\ log' = UnitLog("turn_loop", pos, target,
                       TurnLoop([orientation |-> direction, issued |-> << >>], target).issued, {})
    /\ UNCHANGED <<prog, posX, posY, currentMode, goalFound, explorePhaseComplete,
                   justReachedGoal, walls, distances, visited, fastestPath, pathLength,
                   status, env>>

SteerInit == UnitInit(SteerWallMaps)

SteerNext ==
    \/ \E p \in Cells, mode \in {SEARCH_MODE, RETURN_MODE} :
           \E U \in SUBSET NeighborCells(p) : ChooseUnit(Placed(p, mode, U))
    \/ \E target \in Dirs : TurnUnit(target)
    \/ \E target \in Dirs : TurnLoopUnit(target)

SpecSteer == SteerInit /\ [][SteerNext]_vars

\* C20: for every orientation and target, turning issues nothing when they
\* are equal, one right turn when (target - orientation) mod 4 is 1, one left
\* turn when it is 3, two right turns when it is 2, and the orientation,
\* updated with each actuation, is the target when the turn ends.
C20_TurnActuations ==
    log.op \in {"turn", "turn_loop"} =>
        /\ direction = log.dir
        /\ log.issued =
              CASE (log.dir - log.from + DIRECTION_COUNT) % DIRECTION_COUNT = 0 -> << >>
                [] (log.dir - log.from + DIRECTION_COUNT) % DIRECTION_COUNT = 1 -> <<"R">>
                [] (log.dir - log.from + DIRECTION_COUNT) % DIRECTION_COUNT = 3 -> <<"L">>
                [] OTHER -> <<"R", "R">>

\* The turn loop of ff.c has turned the mouse around.
C20_Witness ==
    /\ log.op = "turn_loop"
    /\ log.from = EAST /\ log.dir = WEST
    /\ Len(log.issued) = 2
    /\ direction = WEST

\* ------------------------------------------------------------ C21, C22
\* C21: the mode changes only from SEARCH_MODE to RETURN_MODE in a tick that
\* stands on a goal cell, from RETURN_MODE to SPEED_MODE in a tick that
\* stands on the start, from RETURN_MODE to SEARCH_MODE at the start when
\* ffv3.c found no path or could not verify it, and to SEARCH_MODE on a
\* reset; a tick that changes SEARCH_MODE to RETURN_MODE or RETURN_MODE to
\* SPEED_MODE issues no move and leaves the mouse in its cell.
C21_ModeTransitions ==
    [][currentMode' # currentMode =>
          \/ log'.reset /\ currentMode' = SEARCH_MODE
          \/ /\ currentMode = SEARCH_MODE /\ currentMode' = RETURN_MODE
             /\ is_at_goal(log'.from)
             /\ pos' = log'.from /\ MoveCalls(log'.acts) = 0
          \/ /\ currentMode = RETURN_MODE /\ currentMode' = SPEED_MODE
             /\ is_at_start(log'.from)
             /\ pos' = log'.from /\ MoveCalls(log'.acts) = 0
          \/ /\ prog = "ffv3"
             /\ currentMode = RETURN_MODE /\ currentMode' = SEARCH_MODE
             /\ is_at_start(log'.from)
             /\ \/ pathLength' = 0
                \/ ~verify_path_exploration([fastestPath |-> fastestPath',
                                             pathLength |-> pathLength',
                                             visited |-> visited', walls |-> walls'])]_vars

\* ffv3.c is back in SEARCH_MODE after a tick in RETURN_MODE at the start,
\* with no reset.
C21_Witness ==
    /\ prog = "ffv3"
    /\ log.op = "tick" /\ ~log.reset
    /\ log.mode = RETURN_MODE /\ is_at_start(log.from)
    /\ currentMode = SEARCH_MODE

\* C22: after a tick that changed the mode from SEARCH_MODE to RETURN_MODE,
\* all four goal cells are marked visited, in ff.c and in ffv3.c.
C22_GoalCellsVisited ==
    (log.op = "tick" /\ log.mode = SEARCH_MODE /\ currentMode = RETURN_MODE) =>
        \A g \in GoalCells : visited[g[1]][g[2]]

\* ffv3.c has switched to RETURN_MODE with a goal cell not marked visited.
C22_GoalCellUnvisited ==
    /\ prog = "ffv3"
    /\ log.op = "tick" /\ log.mode = SEARCH_MODE /\ currentMode = RETURN_MODE
    /\ is_at_goal(pos)
    /\ \E g \in GoalCells : ~visited[g[1]][g[2]]

\* ------------------------------------------------------------ C23
\* C23: when the trace of ff.c computeShortestPath stops at a cell with no
\* open neighbour to step to, the path is empty afterwards: whenever the
\* call returns, pathLength is 0 or the path ends on a goal cell.
C23_DeadEndEmptiesPath ==
    (log.op = "path_ff" /\ status = "running")
        => (pathLength = 0 \/ is_at_goal(fastestPath[pathLength - 1]))

\* computeShortestPath returned from a cell that is no goal cell and has no
\* open neighbour below MAX_CELLS, and the cells traced so far remain.
C23_PartialPathRemains ==
    /\ log.op = "path_ff" /\ status = "running"
    /\ pathLength >= 1
    /\ ~is_at_goal(fastestPath[pathLength - 1])
    /\ LowestNeighbor(walls, distances, fastestPath[pathLength - 1], MAX_CELLS).dir = -1

\* ------------------------------------------------------------ C24
\* C24: in ff.c, when the path computed in the RETURN_MODE tick at the start
\* does not end on a goal cell, that tick does not switch to SPEED_MODE.
C24_NoSpeedAfterFailedPath ==
    (/\ prog = "ff" /\ log.op = "tick" /\ ~log.reset /\ status = "running"
     /\ log.mode = RETURN_MODE /\ is_at_start(log.from)
     /\ pathLength >= 1 /\ ~is_at_goal(fastestPath[pathLength - 1]))
        => currentMode # SPEED_MODE

\* The RETURN_MODE tick of ff.c at the start left a path that stops short of
\* the goal, and the mode is SPEED_MODE.
C24_SpeedAfterFailedPath ==
    /\ prog = "ff" /\ log.op = "tick" /\ ~log.reset /\ status = "running"
    /\ log.mode = RETURN_MODE /\ is_at_start(log.from)
    /\ pathLength >= 1 /\ ~is_at_goal(fastestPath[pathLength - 1])
    /\ currentMode = SPEED_MODE

\* ------------------------------------------------------------ C25
\* C25: in ff.c, a RETURN_MODE tick that starts with explorePhaseComplete set
\* calls floodFillToStartWithExploration from no call site.
C25_PlainFillIsPermanent ==
    [][(/\ prog = "ff" /\ currentMode = RETURN_MODE /\ explorePhaseComplete
        /\ log'.op = "tick" /\ ~log'.reset)
            => log'.explore = {}]_vars

\* A RETURN_MODE tick of ff.c called floodFillToStartWithExploration from
\* moveToNextCellReturn with explorePhaseComplete set by an earlier tick.
C25_ExplorationFillResumed ==
    /\ prog = "ff" /\ log.op = "tick" /\ ~log.reset /\ log.mode = RETURN_MODE
    /\ ~is_at_goal(log.from)
    /\ explorePhaseComplete
    /\ "fill" \in log.explore

\* ------------------------------------------------------------ C26
\* C26: a RETURN_MODE tick of ff.c away from the start whose
\* moveToNextCellReturn chose floodFillToStartWithExploration has strictly
\* fewer than three quarters of the cells visited; with exactly three
\* quarters visited it chooses floodFillToStart.  (The tick writes visited
\* only before the choice, so the flags after the tick are those counted.)
C26_ExplorationBelowThreshold ==
    (/\ prog = "ff" /\ log.op = "tick" /\ ~log.reset
     /\ log.mode = RETURN_MODE /\ ~is_at_start(log.from)
     /\ "fill" \in log.explore)
        => 4 * Cardinality({c \in Cells : visited[c[1]][c[2]]}) < 3 * MAX_CELLS

\* moveToNextCellReturn chose floodFillToStartWithExploration with exactly
\* three quarters of the cells visited.
C26_ExplorationAtThreshold ==
    /\ prog = "ff" /\ log.op = "tick" /\ ~log.reset
    /\ log.mode = RETURN_MODE /\ ~is_at_start(log.from)
    /\ "fill" \in log.explore
    /\ 4 * Cardinality({c \in Cells : visited[c[1]][c[2]]}) = 3 * MAX_CELLS

\* ------------------------------------------------------------ exploration fill alone
\* Largest number of unvisited cells the exploration fill is applied with.
MaxUnvisited == 2

\* The sets of unvisited cells: the start is visited from construction on.
UnvisitedSets ==
    {U \in SUBSET (Cells \ {<<0, 0>>}) : Cardinality(U) <= MaxUnvisited}

\* ff.c floodFillToStartWithExploration(), called once, every cell visited
\* but those of U.
ExploreUnit(U) ==
    /\ log.op = "init"
    /\ visited' = [x \in Xs |-> [y \in Ys |-> <<x, y>> \notin U]]
    /\ distances' = floodFillToStartWithExploration(walls, visited', distances).distances
    /\ status' = IF floodFillToStartWithExploration(walls, visited', distances).overflow
                  THEN "aborted" ELSE status
    /\ log' = UnitLog("explore", pos, direction, << >>, {})
    /\ UNCHANGED <<prog, mouseVars, walls, fastestPath, pathLength, env>>

\* The wall maps the exploration fill is applied to: those of SteerWallMaps,
\* and the far corner cell closed off from the rest of the maze.
ExploreWallMaps ==
    SteerWallMaps
    \cup {WallMap({<< <<MAZE_WIDTH - 2, MAZE_HEIGHT - 1>>, EAST >>,
                   << <<MAZE_WIDTH - 1, MAZE_HEIGHT - 2>>, NORTH >>})}

ExploreInit == UnitInit(ExploreWallMaps)

ExploreNext == \E U \in UnvisitedSets : ExploreUnit(U)

SpecExplore == ExploreInit /\ [][ExploreNext]_vars

\* The cells reachable from the start over edges with no recorded wall.
ReachableFromStart(w) ==
    {c \in Cells : MinHops(w, {<<0, 0>>})[c[1]][c[2]] # INVALID_DISTANCE}

\* ------------------------------------------------------------ C27
\* C27: floodFillToStartWithExploration of ff.c returns for every symmetric
\* wall map and every visited set: its loop ends and the program goes on.
C27_ExplorationFillReturns ==
    log.op = "explore" => status = "running"

\* The fill was called with an unvisited cell reachable from the start and
\* did not return: its queue ran over while distances were still falling.
C27_ExplorationFillLost ==
    /\ log.op = "explore"
    /\ \E c \in ReachableFromStart(walls) : ~visited[c[1]][c[2]]
    /\ status = "aborted"

\* ------------------------------------------------------------ C28
\* C28: in ff.c every tick that acknowledged a reset, wherever it polled the
\* flag, acted on the reinitialised state: after it the mode is SEARCH_MODE,
\* no goal is found, no path is stored and no cell but the start is visited.
C28_AckedResetReinitialises ==
    (prog = "ff" /\ log.op = "tick" /\ (log.reset \/ log.late))
        => /\ currentMode = SEARCH_MODE
           /\ ~goalFound
           /\ pathLength = 0
           /\ \A c \in Cells : visited[c[1]][c[2]] => c = <<0, 0>>

\* prepareForSpeedRun acknowledged a reset in a SPEED_MODE tick, and the tick
\* went on to replay the stored path with moves.
C28_AckedResetKeepsState ==
    /\ prog = "ff" /\ log.op = "tick" /\ ~log.reset /\ log.late
    /\ log.mode = SPEED_MODE
    /\ goalFound /\ pathLength >= 1
    /\ MoveCalls(log.acts) >= 1

\* ------------------------------------------------------------ goal fill alone
\* ff.c floodFillToGoal(), called once, with the agent in cell p.
FloodFillToGoalOp(p) ==
    /\ log.op = "init"
    /\ posX' = p[1] /\ posY' = p[2]
    /\ distances' = floodFillToGoal(walls, p[1], p[2], distances)
    /\ log' = [FillLog(<<GoalTarget(p[1], p[2])>>, distances') EXCEPT !.op = "fill_goal"]
    /\ UNCHANGED <<prog, direction, currentMode, goalFound, explorePhaseComplete,
                   justReachedGoal, walls, visited, fastestPath, pathLength, status, env>>

GoalFillNext == \E p \in Cells : FloodFillToGoalOp(p)

SpecGoalFill == FillInit /\ [][GoalFillNext]_vars

\* ------------------------------------------------------------ C29
\* C29: for every agent position and wall map, ff.c floodFillToGoal leaves
\* the field of a breadth-first search seeded with all four goal cells:
\* every cell holds its hop count to the nearest goal cell.
C29_GoalFillIsMultiSource ==
    log.op = "fill_goal" => distances = MinHops(walls, GoalCells)

\* floodFillToGoal ran with no interior wall recorded and left a goal cell
\* at a distance above 0.
C29_GoalCellNotSeeded ==
    /\ log.op = "fill_goal"
    /\ walls = BoundaryWalls
    /\ \E g \in GoalCells : distances[g[1]][g[2]] > 0
    /\ distances[log.seeds[1][1]][log.seeds[1][2]] = 0

\* ------------------------------------------------------------ C30
\* C30: a tick that starts in SPEED_MODE and meets no reset changes no wall
\* flag and leaves the stored path as it is, in ff.c and in ffv3.c.
C30_SpeedReadOnly ==
    [][(currentMode = SPEED_MODE /\ ~log'.reset)
          => /\ walls' = walls
             /\ fastestPath' = fastestPath
             /\ pathLength' = pathLength]_vars

\* A SPEED_MODE tick recorded a wall the maze does not have, after a move
\* of the replay failed.
C30_WallRecordedInSpeed ==
    /\ log.op = "tick" /\ ~log.reset /\ log.mode = SPEED_MODE
    /\ \E e \in log.failed :
          walls[e[1][1]][e[1][2]][e[2]] /\ ~env.maze[e[1][1]][e[1][2]][e[2]]

\* ------------------------------------------------------------ criticalPathsExplored alone
\* ff.c criticalPathsExplored(), the for-loop over dir for the cell c: TRUE
\* when the loop reaches unvisitedInPath++ (and breaks), i.e. c is unvisited
\* and some side with no wall flag leads in bounds to a distance one less.
RECURSIVE CountsAsUnvisited(_, _, _, _, _)
CountsAsUnvisited(w, vis, dist, c, dir) ==
    IF dir = DIRECTION_COUNT THEN FALSE
    ELSE IF w[c[1]][c[2]][dir] \/ ~is_within_bounds(Neighbor(c, dir))
         THEN CountsAsUnvisited(w, vis, dist, c, dir + 1)
         ELSE IF /\ dist[c[1] + dx[dir]][c[2] + dy[dir]] = dist[c[1]][c[2]] - 1
                 /\ ~vis[c[1]][c[2]]
              THEN TRUE
              ELSE CountsAsUnvisited(w, vis, dist, c, dir + 1)

\* The mutant of UnvisitedInPath: a cell as far from the goal as the start
\* is no candidate.
UnvisitedInPath_Strict(w, vis, dist, k) ==
    Cardinality({c \in Cells : /\ dist[c[1]][c[2]] < dist[0][0]
                               /\ CountsAsUnvisited(w, vis, dist, c, NORTH)})

\* Its loops over x and y from cell number k on: the value of
\* unvisitedInPath they add.
RECURSIVE UnvisitedInPath(_, _, _, _)
UnvisitedInPath(w, vis, dist, k) ==
    IF k = MAX_CELLS THEN 0
    ELSE UnvisitedInPath(w, vis, dist, k + 1)
         + (IF /\ dist[k \div MAZE_HEIGHT][k % MAZE_HEIGHT] <= dist[0][0]
               /\ CountsAsUnvisited(w, vis, dist, <<k \div MAZE_HEIGHT, k % MAZE_HEIGHT>>, NORTH)
            THEN 1 ELSE 0)

\* criticalPathsExplored() once its floodFillToGoal left the field dist.
criticalPathsExplored(w, vis, dist) == UnvisitedInPath(w, vis, dist, 0) = 0

\* criticalPathsExplored(), called once, the agent in cell p and every cell
\* visited but those of U: the field it leaves and the value it returns.
CriticalUnit(p, U) ==
    /\ log.op = "init"
    /\ posX' = p[1] /\ posY' = p[2]
    /\ visited' = [x \in Xs |-> [y \in Ys |-> <<x, y>> \notin U]]
    /\ distances' = floodFillToGoal(walls, p[1], p[2], distances)
    /\ log' = [op |-> "critical", result |-> criticalPathsExplored(walls, visited', distances')]
    /\ UNCHANGED <<prog, direction, currentMode, goalFound, explorePhaseComplete,
                   justReachedGoal, walls, fastestPath, pathLength, status, env>>

CriticalNext == \E p \in CornerTargets, U \in UnvisitedSets : CriticalUnit(p, U)

SpecCritical == UnitInit(ExploreWallMaps) /\ [][CriticalNext]_vars

\* ------------------------------------------------------------ C31
\* The candidates of the field in distances: the cells at most as far from
\* the goal as the start that have a neighbour, across an edge with no
\* recorded wall, exactly one step nearer.
Candidates ==
    {c \in Cells :
        /\ distances[c[1]][c[2]] <= distances[0][0]
        /\ \E d \in Dirs :
              /\ OpenEdge(walls, c, d)
              /\ distances[c[1] + dx[d]][c[2] + dy[d]] = distances[c[1]][c[2]] - 1}

MaxMazeWalls == 2

\* The sets of at most k interior edges.
RECURSIVE EdgeSets(_)
EdgeSets(k) ==
    IF k = 0 THEN {{}}
    ELSE EdgeSets(k - 1) \cup {S \cup {e} : S \in EdgeSets(k - 1), e \in Edges}

\* The mazes of the undisturbed runs: the boundary, at most MaxMazeWalls
\* interior walls, some goal cell reachable from the start; and the mazes
\* of Mazes.
QuietMazes ==
    {mz \in {WallMap(S) : S \in EdgeSets(MaxMazeWalls)} :
        MinHops(mz, GoalCells)[0][0] # INVALID_DISTANCE}
    \cup Mazes

\* The tick that meets no event: no reset, every sensor answers as the maze
\* is, a move fails only at a wall.
NoEvent == [reset |-> FALSE, flip |-> 0, bumpAt |-> 0, late |-> FALSE]

QuietInit ==
    /\ prog \in {"ff", "ffv3"}
    /\ posX = 0 /\ posY = 0 /\ direction = NORTH
    /\ currentMode = SEARCH_MODE
    /\ goalFound = FALSE
    /\ explorePhaseComplete = FALSE
    /\ justReachedGoal = TRUE
    /\ walls = BoundaryWalls
    /\ distances = IF prog = "ff" THEN floodFillToGoal(BoundaryWalls, 0, 0, AllInvalid)
                   ELSE flood_fill_goal(BoundaryWalls, AllInvalid)
    /\ visited = [x \in Xs |-> [y \in Ys |-> x = 0 /\ y = 0]]
    /\ fastestPath = EmptyPath
    /\ pathLength = 0
    /\ status = "running"
    /\ env \in [kind : {"maze"}, maze : QuietMazes, events : {0}, robot : {RobotAtStart}]
    /\ log = [op |-> "init", reset |-> FALSE, mode |-> SEARCH_MODE, from |-> <<0, 0>>,
              failed |-> {}, moved |-> 0, bumped |-> {}, full |-> FALSE,
              acts |-> << >>, scan |-> {}, target |-> {}, explore |-> {}, late |-> FALSE]

\* One iteration of the main loop of ff.c with no event.
FfQuietTick ==
    /\ prog = "ff"
    /\ status = "running"
    /\ TickResult(NoEvent, FfIteration(Machine, env.maze, FALSE, 0))

\* One iteration of the main loop of ffv3.c with no event.
V3QuietTick ==
    /\ prog = "ffv3"
    /\ status = "running"
    /\ TickResult(NoEvent, V3Iteration(Machine, env.maze, FALSE, 0))

QuietNext ==
    \/ FfQuietTick
    \/ V3QuietTick

\* The main loops run on for as long as the program is neither ended nor
\* lost: weak fairness of the tick, WF_vars(QuietNext), written out with the
\* tick enabled exactly while status is "running".
QuietFair == []<>(status # "running") \/ []<><<log'.op = "tick">>_vars

SpecQuiet == QuietInit /\ [][QuietNext]_vars /\ QuietFair

\* A tick that left the program running in the mode it started in made a
\* move or recorded the wall of a failed move: no tick leaves the state as
\* it found it, so the tick is enabled whenever status is "running".
TickAdvances ==
    (log.op = "tick" /\ status = "running" /\ currentMode = log.mode)
        => log.moved + Cardinality(log.failed) >= 1

\* ------------------------------------------------------------ C32
\* C32: in ff.c, in a static maze with the boundary walls and a goal cell
\* reachable from the start, with no event, every tick in SEARCH_MODE
\* advances and the mode eventually becomes RETURN_MODE.
C32_SearchReachesGoal ==
    /\ [](prog = "ff" => TickAdvances)
    /\ (prog = "ff" /\ currentMode = SEARCH_MODE) ~> (currentMode = RETURN_MODE)

\* ff.c switched to RETURN_MODE on a goal cell after a search that ran into
\* walls: it visited more cells than the shortest way to the goal block has.
C32_Witness ==
    /\ prog = "ff" /\ log.op = "tick"
    /\ log.mode = SEARCH_MODE /\ currentMode = RETURN_MODE
    /\ is_at_goal(pos)
    /\ env.maze # BoundaryWalls
    /\ Cardinality({c \in Cells : visited[c[1]][c[2]] /\ ~is_at_goal(c)})
          > MinHops(env.maze, GoalCells)[0][0]

\* ------------------------------------------------------------ C33
\* C33: in ffv3.c, in a static maze with a goal cell reachable from the
\* start, with no event, every tick advances, the mode eventually becomes
\* SPEED_MODE and the program ends.
C33_MissionTerminates ==
    /\ [](prog = "ffv3" => TickAdvances)
    /\ (prog = "ffv3") ~> (currentMode = SPEED_MODE /\ status = "done")

\* The path ffv3.c computed at the start failed verify_path_exploration and
\* the mode went back to SEARCH_MODE, a cell of the path being unvisited.
C33_Witness ==
    /\ prog = "ffv3" /\ log.op = "tick"
    /\ log.mode = RETURN_MODE /\ is_at_start(log.from)
    /\ currentMode = SEARCH_MODE
    /\ pathLength > 0
    /\ log.target # {}

\* ------------------------------------------------------------ C34
\* The stored position and orientation are those of the robot.
PoseAgrees == env.robot = [x |-> posX, y |-> posY, dir |-> direction]

\* C34: at the start of every tick the stored position and orientation
\* equal the robot's position and heading, and the stored position is a
\* cell of the grid.
C34_PoseMatchesRobot == (log.op \in {"init", "tick"} /\ status = "running") => (PoseAgrees /\ pos \in Cells)

\* ff.c came back to the start with a heading other than NORTH; the
\* simulator was reset after the poll of main, prepareForSpeedRun
\* acknowledged it and turned the robot by the turns the stored heading
\* asked for: the next tick starts with the robot not facing as stored.
C34_PoseLostAfterAck ==
    /\ prog = "ff" /\ log.op = "tick" /\ status = "running"
    /\ log.mode = RETURN_MODE /\ currentMode = SPEED_MODE
    /\ log.late
    /\ pos = <<0, 0>> /\ direction = NORTH
    /\ env.robot.x = 0 /\ env.robot.y = 0
    /\ env.robot.dir # NORTH

\* ------------------------------------------------------------ C35
\* The four recorded wall flags of cell c are those of the maze.
FlagsExact(c) == \A d \in Dirs : walls[c[1]][c[2]][d] = env.maze[c[1]][c[2]][d]

\* C35: in ff.c, in a static maze with no event, after every tick every
\* visited cell has its four wall flags equal to the maze.
C35_VisitedWallsExact ==
    (prog = "ff" /\ log.op = "tick") =>
        \A c \in Cells : visited[c[1]][c[2]] => FlagsExact(c)

\* ff.c reached a goal cell in SEARCH_MODE and marked the four goal cells
\* visited: one of them, never entered, is visited with a wall of the maze
\* not recorded, on an edge to another visited cell, while every visited
\* cell outside the goal block has the flags of the maze.
C35_UnsensedGoalCellVisited ==
    /\ prog = "ff" /\ log.op = "tick"
    /\ log.mode = SEARCH_MODE /\ currentMode = RETURN_MODE
    /\ \E c \in GoalCells \ {pos} : \E d \in Dirs :
          /\ visited[c[1]][c[2]]
          /\ Neighbor(c, d) \in Cells
          /\ visited[Neighbor(c, d)[1]][Neighbor(c, d)[2]]
          /\ ~walls[c[1]][c[2]][d]
          /\ env.maze[c[1]][c[2]][d]
    /\ \A c \in Cells \ GoalCells : visited[c[1]][c[2]] => FlagsExact(c)

\* ------------------------------------------------------------ C36
\* Every wall the map records is a wall of the maze.
NoInventedWall ==
    \A c \in Cells : \A d \in Dirs : walls[c[1]][c[2]][d] => env.maze[c[1]][c[2]][d]

\* C36: in ffv3.c, in a static maze with no event, the map never records a
\* wall the maze does not have, and compute_shortest_path, called back at
\* the start in RETURN_MODE, finds a path.
C36_NoInventedWall ==
    prog = "ffv3" =>
        /\ NoInventedWall
        /\ (log.op = "tick" /\ log.mode = RETURN_MODE /\ is_at_start(log.from))
              => pathLength > 0

\* ffv3.c is back at the start from the goal, has recorded an interior wall
\* and has left another wall of the maze unrecorded; compute_shortest_path
\* found a path.
C36_Witness ==
    /\ prog = "ffv3" /\ log.op = "tick"
    /\ log.mode = RETURN_MODE /\ is_at_start(log.from)
    /\ pathLength > 0
    /\ walls # BoundaryWalls
    /\ walls # env.maze

\* ------------------------------------------------------------ C37
\* The queue of the fill the last action ran: every cell it enqueued, in
\* the order of the writes at qBack.
FillQueue == BfsRun(walls, log.seeds, distances).queue

\* C37: in a plain flood fill (ff.c floodFill, ffv3.c flood_fill and
\* flood_fill_goal, ffv1.c floodFill) no cell is enqueued twice, so the
\* writes at qBack stay within the MAX_CELLS elements of the queue.
C37_EnqueuedAtMostOnce ==
    log.op = "fill" =>
        /\ Cardinality({FillQueue[i] : i \in 1 .. Len(FillQueue)}) = Len(FillQueue)
        /\ Len(FillQueue) <= MAX_CELLS

\* A fill from the four goal cells over a map with interior walls enqueued
\* every cell: the queue is written up to its last element.
C37_Witness ==
    /\ log.op = "fill"
    /\ Len(log.seeds) = 4
    /\ walls # BoundaryWalls
    /\ Len(FillQueue) = MAX_CELLS
    /\ \A c \in Cells : distances[c[1]][c[2]] = MinHops(walls, GoalCells)[c[1]][c[2]]

\* ------------------------------------------------------------ C38
\* C38: in ff.c updateDisplay leaves the distance field as it found it: after
\* the tick that enters RETURN_MODE, which ends with floodFillToStart and
\* updateDisplay, the field is the one floodFillToStart computed.
C38_DisplayKeepsField ==
    (prog = "ff" /\ log.op = "tick"
       /\ log.mode = SEARCH_MODE /\ currentMode = RETURN_MODE) =>
        distances = floodFillToStart(walls, distances)

\* ff.c entered RETURN_MODE with a cell unvisited outside the goal block:
\* updateDisplay flooded the field to the goal and ran the exploration fill,
\* and the field the tick ends with is not the one floodFillToStart had
\* computed.
C38_DisplayChangedField ==
    /\ prog = "ff" /\ log.op = "tick"
    /\ log.mode = SEARCH_MODE /\ currentMode = RETURN_MODE
    /\ log.explore = {"display"}
    /\ \E c \in Cells \ GoalCells : ~visited[c[1]][c[2]]
    /\ distances # floodFillToStart(walls, distances)
====
